---- MODULE Spec2Model ----
(***************************************************************************)
(* The ordering engine of squeezetgz (package internal/squeezetgz):       *)
(* OptimizeTarGz loads the entries of a tar.gz archive, reorders the      *)
(* regular entries (window chain builder or exhaustive search), rebuilds  *)
(* the archive, validates the checksums and writes the output.            *)
(*                                                                        *)
(* Data is modelled in blocks: one element of a Content sequence stands   *)
(* for BlockBytes bytes, and a serialized tar header is three symbols     *)
(* (name field, the fields after it, linkname field).  A TarFile pointer  *)
(* is an index into heap.                                                 *)
(***************************************************************************)
EXTENDS Integers, Sequences, FiniteSets, TLC

\* ------------------------------------------------------------------ bounds
\* Largest number of entries of an input archive in the general runs.
MaxFiles == 3

\* ------------------------------------------------------- program constants
\* squeezetgz.go:61  windowSize := 32 * 1024
windowSize == 32 * 1024
\* squeezetgz.go:62  halfWindowSize := windowSize / 2
halfWindowSize == windowSize \div 2
\* squeezetgz.go:223  if len(files) > 10
MaxBruteForceFiles == 10
\* squeezetgz.go:229  bestSize := math.MaxInt64, held as the largest number
\* TLC's integers have: above the size of every archive of the model.
MaxInt64 == 2147483647

\* Granularity of the model: bytes per Content element.
BlockBytes == 8 * 1024

\* tar type flags (archive/tar: TypeReg, TypeSymlink, TypeDir)
TypeReg == "reg"
TypeSymlink == "symlink"
TypeDir == "dir"

WindowMode == "window"
BruteForceMode == "brute"

\* ------------------------------------------------------------ sequences
Max(a, b) == IF a > b THEN a ELSE b

\* s[from+1 .. to] in Go's s[from:to]
Slice(s, from, to) == SubSeq(s, from + 1, to)

\* RemoveAt with the wrong element cut: the last one instead of the i-th.
RemoveAtLast(s, i) == SubSeq(s, 1, Len(s) - 1)

\* append(s[:i], s[i+1:]...) with a 1-based i
RemoveAt(s, i) == SubSeq(s, 1, i - 1) \o SubSeq(s, i + 1, Len(s))

Swap(s, i, j) == [s EXCEPT ![i] = s[j], ![j] = s[i]]

Range(s) == {s[k] : k \in 1..Len(s)}

\* len() of a Content sequence, in bytes
ByteLen(content) == Len(content) * BlockBytes

\* ---------------------------------------------------------------- state
VARIABLES
    mode,                \* OptimizeTarGz's mode argument
    archive,             \* the entries of the input archive, in file order
    pc,                  \* the position of the run inside OptimizeTarGz
    heap,                \* the TarFile objects; a *TarFile is an index
    files,               \* files           []*TarFile (extractTarGz)
    regularFiles,        \* regularFiles    []*TarFile
    specialFiles,        \* specialFiles    []*TarFile
    ordered,             \* optimizeWindow's ordered / orderedRegularFiles
    remaining,           \* optimizeWindow's remaining
    bestOrder,           \* optimizeBruteForce's bestOrder
    bestSize,            \* optimizeBruteForce's bestSize
    evals,               \* createTarGz calls made by permuteAndCompress
    orderedFiles,        \* orderedFiles    []*TarFile
    optimizedTarGz,      \* <<the archive createTarGz built>>, <<>> before
    outputFile,          \* <<the archive stored at outputPath>>, <<>> if none
    err,                 \* the error OptimizeTarGz returns, "none" if nil
    result,              \* <<the OptimizationResult returned>>, <<>> if nil
    validated,           \* what validateChecksums answered, "no" before
    fault,               \* the fault injected into the run, "none" if none
    failAt,              \* the scoring call the fault makes fail, NoFailure if none
    inputBytes,          \* len(inputBytes), the length of the input file
    previous,            \* <<the archive an earlier run wrote>> when the
                         \* input is that archive, <<>> otherwise
    call,                \* the findBestNextFile call under way, NoCall if none
    roundTrip,           \* unnamed/part_002: a writeTarGZ / readTarGZ round trip
    cli,                 \* main.go: a run of the root package's main
    permuting,           \* a permutation generator at work on an index array
    squeeze              \* unnamed/part_000: a call of orderWindow

\* The state of the other programs of the repository, which a run of
\* OptimizeTarGz leaves alone.
side == <<roundTrip, cli, permuting, squeeze>>

vars == <<mode, archive, pc, heap, files, regularFiles, specialFiles, ordered,
          remaining, bestOrder, bestSize, evals, orderedFiles, optimizedTarGz,
          outputFile, err, result, validated, fault, failAt, inputBytes,
          previous, call, side>>

\* ------------------------------------------------------------ the codec
\* A tar header as read by archive/tar; Size counts Content elements.
TypeCode(t) == IF t = TypeReg THEN 0 ELSE IF t = TypeSymlink THEN 1 ELSE 2

\* The fields of a header block other than name and linkname (mode, size,
\* checksum, typeflag, ...), as one symbol: the checksum field makes it
\* differ for headers that differ in any field.  Negative, where content
\* blocks are positive numbers below PathBase and a zero block is 0.
HeaderSym(h) ==
    0 - (1 + h.Size + 10 * TypeCode(h.Typeflag) + 100 * h.Linkname + 1000 * h.Name)

\* The name or linkname field of a header block: the path padded to 100
\* bytes, equal for equal paths; path 0 is the empty one.
PathBase == 100
PathField(path) == PathBase + path

\* The 512-byte header block tar.Writer.WriteHeader emits.
headerBlock(h) == <<PathField(h.Name), HeaderSym(h), PathField(h.Linkname)>>

\* crypto/sha256.Sum256: a collision-free fingerprint of the bytes.
Sum256(bytes) == [sha256 |-> bytes]

\* Bytes of one symbol of a byte stream: a zero block, the fields of a
\* header block, or a content element.
SymBytes(x) ==
    IF x = 0 THEN 512
    ELSE IF x < 0 THEN 512 - 2 * PathBase
    ELSE IF x >= PathBase THEN PathBase
    ELSE BlockBytes

\* The byte offset of every symbol of data, from the offset of the first.
RECURSIVE Offsets(_, _)
Offsets(data, first) ==
    IF data = <<>>
    THEN <<>>
    ELSE <<first>> \o Offsets(Tail(data), first + SymBytes(Head(data)))

RECURSIVE Sum(_)
Sum(s) == IF s = <<>> THEN 0 ELSE Head(s) + Sum(Tail(s))

\* The bytes of data that no back-reference covers (the literals a
\* sliding-window compressor has to emit): DEFLATE reaches back windowSize
\* bytes, and a symbol found there again costs nothing.
Literals(data) ==
    LET offs == Offsets(data, 0) IN
    Sum([k \in 1..Len(data) |->
            IF \A j \in 1..(k - 1) :
                   offs[k] - offs[j] > windowSize \/ data[j] # data[k]
            THEN SymBytes(data[k])
            ELSE 0])

\* The bytes of a gzip stream around the compressed data: a header of 10
\* bytes and a trailer of 8.
GzipFraming == 18

\* squeezetgz.go:375  compressBytes: len() of the gzip stream of data at
\* BestCompression; the empty input has the size of the framing alone.
compressBytes(data) == GzipFraming + Literals(data)

\* squeezetgz.go:295  headerToBytes: WriteHeader then Close, whose error is
\* dropped.  Close writes the two-zero-block trailer only when no content is
\* owed (Flush fails with "missed writing" when header.Size > 0).
headerToBytes(header) ==
    headerBlock(header) \o (IF header.Size = 0 THEN <<0, 0>> ELSE <<>>)

\* The tar stream createTarGz writes for files (a sequence of pointers):
\* header block and content of each entry in order, then the trailer.
RECURSIVE TarStream(_, _)
TarStream(h, fs) ==
    IF fs = <<>> THEN <<0, 0>>
    ELSE headerBlock(h[Head(fs)].Header) \o h[Head(fs)].Content
             \o TarStream(h, Tail(fs))

\* tar.Writer rejects content longer than header.Size (ErrWriteTooLong) and
\* a next header or Close while content is owed.
TarWritable(h, fs) ==
    \A k \in 1..Len(fs) : Len(h[fs[k]].Content) = h[fs[k]].Header.Size

\* squeezetgz.go:392  createTarGz: the archive written for files, as the
\* (header, content) pairs it holds and the length of its gzip stream.
createTarGz(h, fs) ==
    IF TarWritable(h, fs)
    THEN [err |-> FALSE,
          entries |-> [k \in 1..Len(fs) |->
                          [Header |-> h[fs[k]].Header, Content |-> h[fs[k]].Content]],
          size |-> compressBytes(TarStream(h, fs))]
    ELSE [err |-> TRUE, entries |-> <<>>, size |-> 0]

\* ------------------------------------------------------ scoring failures
\* squeezetgz.go:241, 278, 335  the err result of the createTarGz or
\* compressBytes call made to score a permutation or a candidate: non-nil
\* for the call failAt names, the call-th of its site.
ScoringFails(site, n) == failAt.site = site /\ failAt.call = n

\* ------------------------------------------------------ exhaustive search
\* squeezetgz.go:238  permuteAndCompress(files, index, &bestOrder, &bestSize).
\* st holds what the recursion shares: the files slice it swaps in place,
\* *bestOrder, *bestSize, and evals, the number of createTarGz calls made.
\* Indices are 1-based: index = Len(files) + 1 is the code's index == len.
RECURSIVE permuteAndCompress(_, _, _)
RECURSIVE permuteLoop(_, _, _, _)
\* permuteAndCompress with a permutation of equal size taking the best's place.
permuteAndCompressKeepLast(h, st, index) ==
    IF index = Len(st.files) + 1
    THEN LET tarGz == createTarGz(h, st.files) IN
         IF tarGz.err \/ ScoringFails("permute", st.evals + 1)
         THEN [st EXCEPT !.evals = @ + 1]
         ELSE IF tarGz.size <= st.bestSize
              THEN [st EXCEPT !.bestSize = tarGz.size,
                              !.bestOrder = st.files,
                              !.evals = @ + 1]
              ELSE [st EXCEPT !.evals = @ + 1]
    ELSE permuteLoop(h, st, index, index)

permuteAndCompress(h, st, index) ==
    IF index = Len(st.files) + 1
    THEN LET tarGz == createTarGz(h, st.files) IN
         IF tarGz.err \/ ScoringFails("permute", st.evals + 1)
         THEN [st EXCEPT !.evals = @ + 1]
         ELSE IF tarGz.size < st.bestSize
              THEN [st EXCEPT !.bestSize = tarGz.size,
                              !.bestOrder = st.files,
                              !.evals = @ + 1]
              ELSE [st EXCEPT !.evals = @ + 1]
    ELSE permuteLoop(h, st, index, index)

\* permuteLoop without the swap that restores the order after the recursion.
permuteLoopNoRestore(h, st, index, i) ==
    IF i > Len(st.files)
    THEN st
    ELSE LET swapped == [st EXCEPT !.files = Swap(@, index, i)]
             after == permuteAndCompress(h, swapped, index + 1)
         IN  permuteLoop(h, after, index, i + 1)

\* The for loop of permuteAndCompress from i on: swap, recurse, swap back.
permuteLoop(h, st, index, i) ==
    IF i > Len(st.files)
    THEN st
    ELSE LET swapped == [st EXCEPT !.files = Swap(@, index, i)]
             after == permuteAndCompress(h, swapped, index + 1)
         IN  permuteLoop(h, [after EXCEPT !.files = Swap(@, index, i)], index, i + 1)

\* ------------------------------------------------------ integrity check
\* validateChecksums with the header checksum of regular files left unchecked.
validateChecksumsContentOnly(h, original, reordered) ==
    IF Len(original) # Len(reordered)
    THEN FALSE
    ELSE LET originalChecksums == {h[original[k]].Checksum : k \in 1..Len(original)}
             originalHeaderChecksums ==
                 {h[original[k]].HeaderHash : k \in 1..Len(original)}
         IN  \A k \in 1..Len(reordered) :
                 LET file == h[reordered[k]] IN
                 IF file.Header.Typeflag # TypeReg
                 THEN file.HeaderHash \in originalHeaderChecksums
                 ELSE file.Checksum \in originalChecksums

\* squeezetgz.go:426  validateChecksums(original, reordered), both slices
\* of pointers into h.
validateChecksums(h, original, reordered) ==
    IF Len(original) # Len(reordered)
    THEN FALSE
    ELSE LET originalChecksums == {h[original[k]].Checksum : k \in 1..Len(original)}
             originalHeaderChecksums ==
                 {h[original[k]].HeaderHash : k \in 1..Len(original)}
         IN  \A k \in 1..Len(reordered) :
                 LET file == h[reordered[k]] IN
                 IF file.Header.Typeflag # TypeReg
                 THEN file.HeaderHash \in originalHeaderChecksums
                 ELSE /\ file.Checksum \in originalChecksums
                      /\ file.HeaderHash \in originalHeaderChecksums

\* ------------------------------------------------ window chain builder
\* a/b > c/d for the float64 ratios the code compares (b, d > 0).
\* Compared as continued fractions, with no product of two sizes; x / 0
\* (x > 0) is above every ratio, as math.MaxFloat64 is.
RECURSIVE RatioGreater(_, _, _, _)
RatioGreater(a, b, c, d) ==
    IF b = 0 THEN a > 0 /\ d > 0
    ELSE IF d = 0 THEN FALSE
    ELSE IF a \div b # c \div d THEN a \div b > c \div d
    ELSE IF a % b = 0 THEN FALSE
    ELSE IF c % d = 0 THEN TRUE
    ELSE RatioGreater(d, c % d, b, a % b)

RatioLess(a, b, c, d) == RatioGreater(c, d, a, b)

RECURSIVE StreamBytes(_)
StreamBytes(data) ==
    IF data = <<>> THEN 0 ELSE SymBytes(Head(data)) + StreamBytes(Tail(data))

\* squeezetgz.go:267  findBestStartFile(files, halfWindowSize): the loop
\* from position i on, with bestIdx and worstRatio = num / den so far.
RECURSIVE startLoop(_, _, _, _, _, _)
startLoop(h, fs, i, bestIdx, num, den) ==
    IF i > Len(fs)
    THEN bestIdx
    ELSE LET file == h[fs[i]] IN
         IF ByteLen(file.Content) < halfWindowSize * 2
         THEN startLoop(h, fs, i + 1, bestIdx, num, den)
         ELSE IF ScoringFails("start", i)
         THEN startLoop(h, fs, i + 1, bestIdx, num, den)
         ELSE LET compressed == compressBytes(file.Content) IN
              IF RatioGreater(compressed, ByteLen(file.Content), num, den)
              THEN startLoop(h, fs, i + 1, i, compressed, ByteLen(file.Content))
              ELSE startLoop(h, fs, i + 1, bestIdx, num, den)

\* findBestStartFile starting from "none found" instead of the first
\* position.
findBestStartFileNoneFound(h, fs) == startLoop(h, fs, 1, 0, 0, 1)

\* 1-based: the code's bestIdx := 0 is position 1.
findBestStartFile(h, fs) == startLoop(h, fs, 1, 1, 0, 1)

\* squeezetgz.go:334  the bytes a worker compresses for one candidate.
combined(h, lastFile, candidate) ==
    h[lastFile].LastWindow \o headerToBytes(h[candidate].Header)
        \o h[candidate].FirstWindow

\* squeezetgz.go:159-163  cap() of content.Bytes(), the array io.Copy filled
\* through a bytes.Buffer, for a content of n bytes: Buffer.ReadFrom asks
\* for MinRead free bytes before every read, the end of the input included,
\* and the buffer doubles whenever it has to grow.
MinRead == 512

RECURSIVE bufferCap(_, _)
bufferCap(n, c) == IF n + MinRead <= c THEN c ELSE bufferCap(n, 2 * c)

\* cap() - len() of file.LastWindow, a slice of Content up to its end.
spareCap(file) ==
    bufferCap(ByteLen(file.Content), MinRead) - ByteLen(file.Content)

\* squeezetgz.go:327-334  what a worker appends to lastFile.LastWindow.
appended(h, candidate) ==
    headerToBytes(h[candidate].Header) \o h[candidate].FirstWindow

\* How many symbols of it the appends of line 334 store in the spare
\* capacity of the array LastWindow points into: append writes in place
\* while the capacity lasts and moves to an array of its own when not.
written(h, lastFile, candidate) ==
    LET headerBytes == headerToBytes(h[candidate].Header)
        spare == spareCap(h[lastFile])
    IN  IF StreamBytes(headerBytes) > spare
        THEN 0
        ELSE IF StreamBytes(appended(h, candidate)) > spare
             THEN Len(headerBytes)
             ELSE Len(appended(h, candidate))

\* combined is a slice of the array of lastFile.Content.
aliased(h, lastFile, candidate) ==
    written(h, lastFile, candidate) = Len(appended(h, candidate))

\* What is left of a symbol that another worker's bytes cover in part: a
\* symbol of the same length unlike any other.
torn(k, x) == IF x = 0 THEN 2 * PathBase + k ELSE PathBase - 1

\* The symbol compressBytes reads at position k of what the worker of
\* candidate appended, when the workers of later ran line 334 after it, in
\* this order, and before its line 335.
seenAt(h, lastFile, candidate, later, k) ==
    LET own == appended(h, candidate)
        offs == Offsets(own, 0)
        stored(x) == SubSeq(appended(h, later[x]), 1, written(h, lastFile, later[x]))
        over == {x \in 1..Len(later) : StreamBytes(stored(x)) > offs[k]}
    IN  IF over = {}
        THEN own[k]
        ELSE LET last == CHOOSE x \in over : \A y \in over : y <= x
                 theirs == stored(last)
                 at == {m \in 1..Len(theirs) :
                           /\ Offsets(theirs, 0)[m] = offs[k]
                           /\ SymBytes(theirs[m]) = SymBytes(own[k])}
             IN  IF at = {} THEN torn(k, own[k]) ELSE theirs[CHOOSE m \in at : TRUE]

\* squeezetgz.go:334-335  the bytes compressBytes reads for candidate.
seen(h, lastFile, candidate, later) ==
    IF aliased(h, lastFile, candidate)
    THEN h[lastFile].LastWindow \o
             [k \in 1..Len(appended(h, candidate)) |->
                 seenAt(h, lastFile, candidate, later, k)]
    ELSE combined(h, lastFile, candidate)

\* squeezetgz.go:335, 340  the sizes the workers may compute when they run
\* line 334 in the order given (order[p] is the worker that runs it as the
\* p-th): sizes[p][r] is the length of the compressed bytes of that worker
\* when it runs line 335 after r workers have run line 334.
sizes(h, lastFile, candidates, order) ==
    [p \in 1..Len(candidates) |->
        [r \in p..Len(candidates) |->
            compressBytes(seen(h, lastFile, candidates[order[p]],
                               [x \in 1..(r - p) |-> candidates[order[p + x]]]))]]

\* The candidates that have the least ratio for some choice of the moments
\* the workers run line 335, among the workers that sent a result: a worker
\* whose compressBytes fails returns without one (lines 336-339), and with
\* no result at all the call returns index 0 (lines 367-369).
winners(h, lastFile, candidates, order) ==
    LET n == Len(candidates)
        num == sizes(h, lastFile, candidates, order)
        den == [p \in 1..n |->
                   StreamBytes(combined(h, lastFile, candidates[order[p]]))]
        sent == {p \in 1..n : ~ScoringFails("next", order[p])}
        least == {p \in sent :
                     \E r \in p..n : \A q \in sent \ {p} : \E t \in q..n :
                         ~RatioLess(num[q][t], den[q], num[p][r], den[p])}
    IN  IF sent = {} THEN {1} ELSE {order[p] : p \in least}

\* squeezetgz.go:306  findBestNextFile(lastFile, candidates, halfWindowSize):
\* the set of indices the call may return.  Every worker sends one result;
\* the collecting loop keeps the first result whose ratio is strictly below
\* the best so far, and the results arrive in any order: each candidate of
\* minimal ratio is returned on some schedule.  The workers whose combined
\* is a slice of lastFile's array read what the others stored there, so the
\* order in which they run line 334 counts.
findBestNextFile(h, lastFile, candidates) ==
    IF Len(candidates) = 0
    THEN {1}
    ELSE IF \A i \in 1..Len(candidates) : ~aliased(h, lastFile, candidates[i])
    THEN winners(h, lastFile, candidates, [p \in 1..Len(candidates) |-> p])
    ELSE UNION {winners(h, lastFile, candidates, order) :
                   order \in Permutations(1..Len(candidates))}

\* ---------------------------------------------------------------- inputs
RegEntry(name, data) ==
    [Header |-> [Name |-> name, Typeflag |-> TypeReg, Size |-> Len(data),
                 Linkname |-> 0],
     Data |-> data]

SpecialEntry(name, typeflag, linkname) ==
    [Header |-> [Name |-> name, Typeflag |-> typeflag, Size |-> 0,
                 Linkname |-> linkname],
     Data |-> <<>>]

\* The entries the general runs draw archives from: an empty regular file,
\* two files of equal content under different names, files no longer than
\* half a window, files of a whole window and more, a symbolic link and a
\* directory.
EntryPool ==
    { RegEntry(1, <<>>), RegEntry(1, <<1, 2>>), RegEntry(2, <<1, 2>>),
      RegEntry(2, <<2, 1>>), RegEntry(1, <<3, 3, 3, 3>>),
      RegEntry(2, <<1, 2, 3, 4, 1>>),
      SpecialEntry(3, TypeSymlink, 1), SpecialEntry(4, TypeDir, 0) }

\* squeezetgz.go:65-76  the window slices of a regular file's content.
FirstWindowOf(content) ==
    IF ByteLen(content) <= halfWindowSize
    THEN content
    ELSE Slice(content, 0, halfWindowSize \div BlockBytes)

LastWindowOf(content) ==
    IF ByteLen(content) <= halfWindowSize
    THEN content
    ELSE Slice(content, Len(content) - halfWindowSize \div BlockBytes, Len(content))

\* squeezetgz.go:146-184  the TarFile extractTarGz builds for one entry:
\* content is read for regular files only, both checksums are taken here.
NewTarFile(entry) ==
    LET contentBytes == IF entry.Header.Typeflag = TypeReg THEN entry.Data ELSE <<>>
    IN  [Header |-> entry.Header,
         Content |-> contentBytes,
         Checksum |-> Sum256(contentBytes),
         HeaderHash |-> Sum256(headerBlock(entry.Header)),
         FirstWindow |-> <<>>,
         LastWindow |-> <<>>]

SeqsUpTo(S, n) == UNION {[1..k -> S] : k \in 0..n}

Archives == SeqsUpTo(EntryPool, MaxFiles)

\* testutils.go:42-110  the crafted fixture: file1 and file2 begin with the
\* same half window, file3 and file4 end with the same half window, each
\* with a section of a whole window of its own, and two files of a whole
\* window of random bytes.  Alphabetic sections that differ block by block.
FixtureDistinct ==
    << RegEntry(1, <<11, 12, 13, 14, 15, 16>>),
       RegEntry(2, <<11, 12, 17, 18, 19, 20>>),
       RegEntry(3, <<21, 22, 23, 24, 29, 30>>),
       RegEntry(4, <<25, 26, 27, 28, 29, 30>>),
       RegEntry(5, <<31, 32, 33, 34>>),
       RegEntry(6, <<35, 36, 37, 38>>) >>

\* testutils.go:49-58, 130-139  the same fixture with its alphabetic
\* sections as the cyclic alphabets the test writes: every block of capital
\* letters is found again in any other within reach, and so is every block
\* of small letters.
FixturePeriodic ==
    << RegEntry(1, <<41, 41, 41, 41, 41, 41>>),
       RegEntry(2, <<41, 41, 41, 41, 41, 41>>),
       RegEntry(3, <<41, 41, 41, 41, 42, 42>>),
       RegEntry(4, <<41, 41, 41, 41, 42, 42>>),
       RegEntry(5, <<31, 32, 33, 34>>),
       RegEntry(6, <<35, 36, 37, 38>>) >>

\* The fixture as testutils.CreateTarGz writes it (lines 152-158: entries
\* sorted by name), and with the two random files first.
Rotated(s, r) == [k \in 1..Len(s) |-> s[((k + r - 1) % Len(s)) + 1]]

FixtureArchives ==
    {Rotated(f, r) : f \in {FixtureDistinct, FixturePeriodic}, r \in {0, 4}}

Modes == {WindowMode, BruteForceMode}

\* A nil slice of *TarFile.
NoTarFiles == <<>>

\* The lengths the input file of an archive may have: its tar stream encoded
\* as createTarGz encodes it, or by an encoder that uses no back-reference.
InputLengths(a) ==
    LET h == [k \in 1..Len(a) |-> NewTarFile(a[k])]
        stream == TarStream(h, [k \in 1..Len(a) |-> k])
    IN  {compressBytes(stream), GzipFraming + StreamBytes(stream)}

\* No other program of the repository is running.
NoRoundTrip == [pc |-> "idle"]

NoCli == [pc |-> "idle"]

NoGen == [pc |-> "idle"]

NoSqueeze == [pc |-> "idle"]

SideIdle ==
    /\ roundTrip = NoRoundTrip
    /\ cli = NoCli
    /\ permuting = NoGen
    /\ squeeze = NoSqueeze

\* No scoring call is made to fail.
NoFailure == [site |-> "none", call |-> 0]

\* squeezetgz.go:355  bestRatio := math.MaxFloat64, as num / den.
MaxFloat64 == [num |-> 1, den |-> 0]

\* No findBestNextFile call is under way.
NoCall ==
    [pc |-> "idle", lastFile |-> 0, candidates |-> <<>>, worker |-> <<>>,
     ran |-> <<>>, read |-> <<>>, results |-> <<>>, wg |-> 0, closed |-> FALSE,
     bestIdx |-> 0, bestRatio |-> MaxFloat64, resultsFound |-> FALSE]

Init ==
    /\ mode \in Modes
    /\ archive \in Archives
    /\ pc = "extract"
    /\ heap = <<>>
    /\ files = NoTarFiles
    /\ regularFiles = NoTarFiles
    /\ specialFiles = NoTarFiles
    /\ ordered = NoTarFiles
    /\ remaining = NoTarFiles
    /\ bestOrder = NoTarFiles
    /\ bestSize = 0
    /\ evals = 0
    /\ orderedFiles = NoTarFiles
    /\ optimizedTarGz = <<>>
    /\ outputFile = <<>>
    /\ err = "none"
    /\ result = <<>>
    /\ validated = "no"
    /\ fault = "none"
    /\ failAt = NoFailure
    /\ inputBytes \in InputLengths(archive)
    /\ previous = <<>>
    /\ call = NoCall
    /\ SideIdle

\* ------------------------------------------------------------- actions
\* squeezetgz.go:48-57, 135-187  read the input and extract its entries.
Extract ==
    /\ pc = "extract"
    /\ heap' = [k \in 1..Len(archive) |-> NewTarFile(archive[k])]
    /\ files' = [k \in 1..Len(archive) |-> k]
    /\ pc' = "windows"
    /\ UNCHANGED <<side, failAt, inputBytes, previous, call, mode, archive, regularFiles, specialFiles, ordered, remaining,
                   bestOrder, bestSize, evals, orderedFiles, optimizedTarGz,
                   outputFile, err, result, validated, fault>>

\* squeezetgz.go:64-76  prepare the first and last windows of regular files.
PrepareWindows ==
    /\ pc = "windows"
    /\ heap' = [k \in 1..Len(heap) |->
                  IF heap[k].Header.Typeflag = TypeReg
                  THEN [heap[k] EXCEPT !.FirstWindow = FirstWindowOf(heap[k].Content),
                                       !.LastWindow = LastWindowOf(heap[k].Content)]
                  ELSE heap[k]]
    /\ pc' = "separate"
    /\ UNCHANGED <<side, failAt, inputBytes, previous, call, mode, archive, files, regularFiles, specialFiles, ordered,
                   remaining, bestOrder, bestSize, evals, orderedFiles,
                   optimizedTarGz, outputFile, err, result, validated, fault>>

\* SeparateFiles collecting the special files in reverse.
SeparateFilesSpecialsReversed ==
    /\ pc = "separate"
    /\ regularFiles' = SelectSeq(files, LAMBDA f : heap[f].Header.Typeflag = TypeReg)
    /\ specialFiles' =
           LET special == SelectSeq(files, LAMBDA f : heap[f].Header.Typeflag # TypeReg)
           IN  [k \in 1..Len(special) |-> special[Len(special) + 1 - k]]
    /\ pc' = "optimize"
    /\ UNCHANGED <<side, failAt, inputBytes, previous, call, mode, archive, heap, files, ordered, remaining, bestOrder,
                   bestSize, evals, orderedFiles, optimizedTarGz, outputFile, err,
                   result, validated, fault>>

\* squeezetgz.go:78-88  separate regular files from special files.
SeparateFiles ==
    /\ pc = "separate"
    /\ regularFiles' = SelectSeq(files, LAMBDA f : heap[f].Header.Typeflag = TypeReg)
    /\ specialFiles' = SelectSeq(files, LAMBDA f : heap[f].Header.Typeflag # TypeReg)
    /\ pc' = "optimize"
    /\ UNCHANGED <<side, failAt, inputBytes, previous, call, mode, archive, heap, files, ordered, remaining, bestOrder,
                   bestSize, evals, orderedFiles, optimizedTarGz, outputFile, err,
                   result, validated, fault>>

\* BruteForceEnter refusing MaxBruteForceFiles files too (>= for >).
BruteForceEnterOffByOne ==
    /\ pc = "optimize"
    /\ mode = BruteForceMode
    /\ IF Len(regularFiles) = 0
       THEN /\ ordered' = regularFiles
            /\ pc' = "combine"
            /\ UNCHANGED <<bestOrder, bestSize, err>>
       ELSE IF Len(regularFiles) >= MaxBruteForceFiles
       THEN /\ err' = "capacity"
            /\ pc' = "done"
            /\ UNCHANGED <<ordered, bestOrder, bestSize>>
       ELSE /\ bestOrder' = regularFiles
            /\ bestSize' = MaxInt64
            /\ pc' = "permute"
            /\ UNCHANGED <<ordered, err>>
    /\ UNCHANGED <<side, failAt, inputBytes, previous, call, mode, archive, heap, files, regularFiles, specialFiles,
                   remaining, evals, orderedFiles, optimizedTarGz, outputFile,
                   result, validated, fault>>

\* BruteForceEnter without the capacity check.
BruteForceEnterNoLimit ==
    /\ pc = "optimize"
    /\ mode = BruteForceMode
    /\ IF Len(regularFiles) = 0
       THEN /\ ordered' = regularFiles
            /\ pc' = "combine"
            /\ UNCHANGED <<bestOrder, bestSize, err>>
       ELSE /\ bestOrder' = regularFiles
            /\ bestSize' = MaxInt64
            /\ pc' = "permute"
            /\ UNCHANGED <<ordered, err>>
    /\ UNCHANGED <<side, failAt, inputBytes, previous, call, mode, archive, heap, files, regularFiles, specialFiles,
                   remaining, evals, orderedFiles, optimizedTarGz, outputFile,
                   result, validated, fault>>

\* BruteForceEnter refusing the empty input.
BruteForceEnterEmptyError ==
    /\ pc = "optimize"
    /\ mode = BruteForceMode
    /\ IF Len(regularFiles) = 0 \/ Len(regularFiles) > MaxBruteForceFiles
       THEN /\ err' = "capacity"
            /\ pc' = "done"
            /\ UNCHANGED <<ordered, bestOrder, bestSize>>
       ELSE /\ bestOrder' = regularFiles
            /\ bestSize' = MaxInt64
            /\ pc' = "permute"
            /\ UNCHANGED <<ordered, err>>
    /\ UNCHANGED <<side, failAt, inputBytes, previous, call, mode, archive, heap, files, regularFiles, specialFiles,
                   remaining, evals, orderedFiles, optimizedTarGz, outputFile,
                   result, validated, fault>>

\* squeezetgz.go:92-96, 217-229  optimizeBruteForce up to the search: the
\* empty input is returned as it is, more than 10 files are refused.
BruteForceEnter ==
    /\ pc = "optimize"
    /\ mode = BruteForceMode
    /\ IF Len(regularFiles) = 0
       THEN /\ ordered' = regularFiles
            /\ pc' = "combine"
            /\ UNCHANGED <<bestOrder, bestSize, err>>
       ELSE IF Len(regularFiles) > MaxBruteForceFiles
       THEN /\ err' = "capacity"
            /\ pc' = "done"
            /\ UNCHANGED <<ordered, bestOrder, bestSize>>
       ELSE /\ bestOrder' = regularFiles
            /\ bestSize' = MaxInt64
            /\ pc' = "permute"
            /\ UNCHANGED <<ordered, err>>
    /\ UNCHANGED <<side, failAt, inputBytes, previous, call, mode, archive, heap, files, regularFiles, specialFiles,
                   remaining, evals, orderedFiles, optimizedTarGz, outputFile,
                   result, validated, fault>>

\* squeezetgz.go:231-234  permuteAndCompress(files, 0, &bestOrder, &bestSize)
\* and the return of bestOrder.  The search runs for inputs of at most
\* MaxFiles entries and for the crafted fixture.
PermuteSearch ==
    /\ pc = "permute"
    /\ Len(regularFiles) <= MaxFiles \/ archive \in FixtureArchives
    /\ LET st == permuteAndCompress(heap,
                     [files |-> regularFiles, bestOrder |-> bestOrder,
                      bestSize |-> bestSize, evals |-> 0], 1)
       IN  /\ regularFiles' = st.files
           /\ bestOrder' = st.bestOrder
           /\ bestSize' = st.bestSize
           /\ evals' = st.evals
           /\ ordered' = st.bestOrder
    /\ pc' = "combine"
    /\ failAt' = NoFailure
    /\ UNCHANGED <<side, inputBytes, previous, call, mode, archive, heap, files, specialFiles, remaining,
                   orderedFiles, optimizedTarGz, outputFile, err, result,
                   validated, fault>>

\* WindowStart with remaining sharing the array of the input slice instead
\* of copying it: the removal of the start file shifts the input's entries.
WindowStartWithoutCopy ==
    /\ pc = "optimize"
    /\ mode = WindowMode
    /\ IF Len(regularFiles) = 0
       THEN /\ ordered' = regularFiles
            /\ pc' = "combine"
            /\ UNCHANGED <<remaining, regularFiles>>
       ELSE LET bestStartIdx == findBestStartFile(heap, regularFiles) IN
            /\ ordered' = <<regularFiles[bestStartIdx]>>
            /\ remaining' = RemoveAt(regularFiles, bestStartIdx)
            /\ regularFiles' = Append(RemoveAt(regularFiles, bestStartIdx),
                                      regularFiles[Len(regularFiles)])
            /\ pc' = IF Len(regularFiles) = 1 THEN "combine" ELSE "chain"
    /\ failAt' = NoFailure
    /\ UNCHANGED <<side, inputBytes, previous, call, mode, archive, heap, files, specialFiles,
                   bestOrder, bestSize, evals, orderedFiles, optimizedTarGz,
                   outputFile, err, result, validated, fault>>

\* squeezetgz.go:98, 190-203  optimizeWindow up to the chain loop: the empty
\* input is returned as it is, otherwise the start file opens the chain.
WindowStart ==
    /\ pc = "optimize"
    /\ mode = WindowMode
    /\ IF Len(regularFiles) = 0
       THEN /\ ordered' = regularFiles
            /\ pc' = "combine"
            /\ UNCHANGED remaining
       ELSE LET bestStartIdx == findBestStartFile(heap, regularFiles) IN
            /\ ordered' = <<regularFiles[bestStartIdx]>>
            /\ remaining' = RemoveAt(regularFiles, bestStartIdx)
            /\ pc' = IF Len(regularFiles) = 1 THEN "combine" ELSE "chain"
    /\ failAt' = NoFailure
    /\ UNCHANGED <<side, inputBytes, previous, call, mode, archive, heap, files, regularFiles, specialFiles,
                   bestOrder, bestSize, evals, orderedFiles, optimizedTarGz,
                   outputFile, err, result, validated, fault>>

\* WindowNext with combined stored back into lastFile.LastWindow.
WindowNextStoringCombined ==
    /\ pc = "chain"
    /\ Len(remaining) > 0
    /\ \E bestNextIdx \in findBestNextFile(heap, ordered[Len(ordered)], remaining) :
           /\ ordered' = Append(ordered, remaining[bestNextIdx])
           /\ remaining' = RemoveAt(remaining, bestNextIdx)
           /\ heap' = [heap EXCEPT ![ordered[Len(ordered)]].LastWindow =
                           combined(heap, ordered[Len(ordered)],
                                    remaining[bestNextIdx])]
    /\ pc' = IF Len(remaining) = 1 THEN "combine" ELSE "chain"
    /\ failAt' = NoFailure
    /\ UNCHANGED <<side, inputBytes, previous, call, mode, archive, files, regularFiles, specialFiles,
                   bestOrder, bestSize, evals, orderedFiles, optimizedTarGz,
                   outputFile, err, result, validated, fault>>

\* squeezetgz.go:206-213  one iteration of the chain loop; the loop ends,
\* and optimizeWindow returns ordered, when nothing remains.
WindowNext ==
    /\ pc = "chain"
    /\ Len(remaining) > 0
    /\ \E bestNextIdx \in findBestNextFile(heap, ordered[Len(ordered)], remaining) :
           /\ ordered' = Append(ordered, remaining[bestNextIdx])
           /\ remaining' = RemoveAt(remaining, bestNextIdx)
    /\ pc' = IF Len(remaining) = 1 THEN "combine" ELSE "chain"
    /\ failAt' = NoFailure
    /\ UNCHANGED <<side, inputBytes, previous, call, mode, archive, heap, files, regularFiles, specialFiles,
                   bestOrder, bestSize, evals, orderedFiles, optimizedTarGz,
                   outputFile, err, result, validated, fault>>

\* ---- findBestNextFile step by step: the goroutines of one call
\* squeezetgz.go:207-208, 316-356  the chain loop calls findBestNextFile:
\* the channel is made, one worker per candidate and the closing goroutine
\* are started, and the collecting loop is reached.  Indices are 1-based:
\* the code's bestIdx := 0 is candidate 1.
StartFindBestNextFile ==
    /\ pc = "chain"
    /\ call.pc = "idle"
    /\ Len(remaining) > 0
    /\ call' = [NoCall EXCEPT
                   !.pc = "collect",
                   !.lastFile = ordered[Len(ordered)],
                   !.candidates = remaining,
                   !.worker = [i \in 1..Len(remaining) |-> "append"],
                   !.read = [i \in 1..Len(remaining) |-> <<>>],
                   !.wg = Len(remaining),
                   !.bestIdx = 1]
    /\ UNCHANGED <<side, failAt, inputBytes, previous, mode, archive, pc, heap, files,
                   regularFiles, specialFiles, ordered, remaining, bestOrder,
                   bestSize, evals, orderedFiles, optimizedTarGz, outputFile, err,
                   result, validated, fault>>

\* What a step of the call leaves alone.
CallStep ==
    UNCHANGED <<side, failAt, inputBytes, previous, mode, archive, pc, heap, files,
                regularFiles, specialFiles, ordered, remaining, bestOrder,
                bestSize, evals, orderedFiles, optimizedTarGz, outputFile, err,
                result, validated, fault>>

\* squeezetgz.go:327-334  worker i builds combined: the two appends store
\* what fits into the spare capacity behind lastFile.LastWindow.
WorkerAppend(i) ==
    /\ call.pc = "collect"
    /\ call.worker[i] = "append"
    /\ call' = [call EXCEPT !.worker[i] = "compress", !.ran = Append(@, i)]
    /\ CallStep

\* squeezetgz.go:335-340  worker i compresses combined, reading what the
\* array holds by now.
WorkerCompress(i) ==
    /\ call.pc = "collect"
    /\ call.worker[i] = "compress"
    /\ LET at == CHOOSE p \in 1..Len(call.ran) : call.ran[p] = i
           later == [x \in 1..(Len(call.ran) - at) |->
                        call.candidates[call.ran[at + x]]]
       IN  call' = [call EXCEPT
                       !.worker[i] = "send",
                       !.read[i] = seen(heap, call.lastFile, call.candidates[i], later)]
    /\ CallStep

\* squeezetgz.go:343, 324  worker i sends its result (the channel has room
\* for every candidate) and is done.
WorkerSend(i) ==
    /\ call.pc = "collect"
    /\ call.worker[i] = "send"
    /\ Len(call.results) < Len(call.candidates)
    /\ call' = [call EXCEPT
                   !.worker[i] = "done",
                   !.wg = @ - 1,
                   !.results = Append(@,
                       [index |-> i,
                        num |-> compressBytes(call.read[i]),
                        den |-> StreamBytes(combined(heap, call.lastFile,
                                                     call.candidates[i]))])]
    /\ CallStep

\* The closing goroutine closing the channel without wg.Wait().
CloseResultsWithoutWait ==
    /\ call.pc = "collect"
    /\ ~call.closed
    /\ call' = [call EXCEPT !.closed = TRUE]
    /\ CallStep

\* squeezetgz.go:348-351  the closing goroutine: wg.Wait(), close(results).
CloseResults ==
    /\ call.pc = "collect"
    /\ call.wg = 0
    /\ ~call.closed
    /\ call' = [call EXCEPT !.closed = TRUE]
    /\ CallStep

\* squeezetgz.go:358-364  the collecting loop receives one result.
ReceiveResult ==
    /\ call.pc = "collect"
    /\ call.results # <<>>
    /\ LET r == Head(call.results) IN
       call' = [call EXCEPT
                   !.results = Tail(@),
                   !.resultsFound = TRUE,
                   !.bestRatio =
                       IF RatioLess(r.num, r.den, @.num, @.den)
                       THEN [num |-> r.num, den |-> r.den] ELSE @,
                   !.bestIdx =
                       IF RatioLess(r.num, r.den, call.bestRatio.num, call.bestRatio.den)
                       THEN r.index ELSE @]
    /\ CallStep

\* squeezetgz.go:366-371  the channel is closed and drained: return bestIdx,
\* the first candidate when no result came.
ReturnBestIdx ==
    /\ call.pc = "collect"
    /\ call.closed
    /\ call.results = <<>>
    /\ call' = [call EXCEPT !.pc = "returned",
                            !.bestIdx = IF call.resultsFound THEN @ ELSE 1]
    /\ CallStep

\* squeezetgz.go:208-211  the chain loop appends the candidate returned and
\* removes it from remaining.
ChainAppend ==
    /\ pc = "chain"
    /\ call.pc = "returned"
    /\ ordered' = Append(ordered, remaining[call.bestIdx])
    /\ remaining' = RemoveAt(remaining, call.bestIdx)
    /\ pc' = IF Len(remaining) = 1 THEN "combine" ELSE "chain"
    /\ call' = NoCall
    /\ UNCHANGED <<side, failAt, inputBytes, previous, mode, archive, heap, files,
                   regularFiles, specialFiles, bestOrder, bestSize, evals,
                   orderedFiles, optimizedTarGz, outputFile, err, result,
                   validated, fault>>

\* CreateOutput building the archive from the reordered regular files alone.
CreateOutputRegularOnly ==
    /\ pc = "combine"
    /\ orderedFiles' = ordered
    /\ LET tarGz == createTarGz(heap, ordered) IN
       IF tarGz.err
       THEN /\ err' = "encoding"
            /\ pc' = "done"
            /\ UNCHANGED optimizedTarGz
       ELSE /\ optimizedTarGz' = <<[entries |-> tarGz.entries, size |-> tarGz.size]>>
            /\ pc' = "validate"
            /\ UNCHANGED err
    /\ UNCHANGED <<side, failAt, inputBytes, previous, call, mode, archive, heap, files, regularFiles, specialFiles,
                   ordered, remaining, bestOrder, bestSize, evals, outputFile,
                   result, validated, fault>>

\* squeezetgz.go:104-111  append the special files and build the archive.
CreateOutput ==
    /\ pc = "combine"
    /\ orderedFiles' = ordered \o specialFiles
    /\ LET tarGz == createTarGz(heap, ordered \o specialFiles) IN
       IF tarGz.err
       THEN /\ err' = "encoding"
            /\ pc' = "done"
            /\ UNCHANGED optimizedTarGz
       ELSE /\ optimizedTarGz' = <<[entries |-> tarGz.entries, size |-> tarGz.size]>>
            /\ pc' = "validate"
            /\ UNCHANGED err
    /\ UNCHANGED <<side, failAt, inputBytes, previous, call, mode, archive, heap, files, regularFiles, specialFiles,
                   ordered, remaining, bestOrder, bestSize, evals, outputFile,
                   result, validated, fault>>

\* Validate with a failed validation recorded and the run carried on.
ValidateWarnOnly ==
    /\ pc = "validate"
    /\ validated' = IF validateChecksums(heap, files, orderedFiles)
                    THEN "accepted" ELSE "rejected"
    /\ pc' = "write"
    /\ UNCHANGED <<side, failAt, inputBytes, previous, call, mode, archive, heap, files, regularFiles, specialFiles,
                   ordered, remaining, bestOrder, bestSize, evals, orderedFiles,
                   optimizedTarGz, outputFile, err, result, fault>>

\* squeezetgz.go:113-116  validate checksums before writing output.
Validate ==
    /\ pc = "validate"
    /\ IF validateChecksums(heap, files, orderedFiles)
       THEN /\ validated' = "accepted"
            /\ pc' = "write"
            /\ UNCHANGED err
       ELSE /\ validated' = "rejected"
            /\ err' = "integrity"
            /\ pc' = "done"
    /\ UNCHANGED <<side, failAt, inputBytes, previous, call, mode, archive, heap, files, regularFiles, specialFiles,
                   ordered, remaining, bestOrder, bestSize, evals, orderedFiles,
                   optimizedTarGz, outputFile, result, fault>>

\* squeezetgz.go:118-121  write the output file.
WriteOutput ==
    /\ pc = "write"
    /\ outputFile' = optimizedTarGz
    /\ pc' = "stats"
    /\ UNCHANGED <<side, failAt, inputBytes, previous, call, mode, archive, heap, files, regularFiles, specialFiles,
                   ordered, remaining, bestOrder, bestSize, evals, orderedFiles,
                   optimizedTarGz, err, result, validated, fault>>

\* squeezetgz.go:123-131  the statistics returned with a nil error.
Return ==
    /\ pc = "stats"
    /\ result' = <<[BeforeSize |-> inputBytes,
                     AfterSize |-> optimizedTarGz[1].size]>>
    /\ pc' = "done"
    /\ UNCHANGED <<side, failAt, inputBytes, previous, call, mode, archive, heap, files, regularFiles, specialFiles,
                   ordered, remaining, bestOrder, bestSize, evals, orderedFiles,
                   optimizedTarGz, outputFile, err, validated, fault>>

Next ==
    \/ Extract
    \/ PrepareWindows
    \/ SeparateFiles
    \/ BruteForceEnter
    \/ PermuteSearch
    \/ WindowStart
    \/ WindowNext
    \/ CreateOutput
    \/ Validate
    \/ WriteOutput
    \/ Return

Spec == Init /\ [][Next]_vars

\* ------------------------------- window mode, goroutine by goroutine
\* The runs in window mode with every findBestNextFile call taken in the
\* steps of its goroutines.
InitWorkers == Init /\ mode = WindowMode

NextWorkers ==
    \/ Extract
    \/ PrepareWindows
    \/ SeparateFiles
    \/ WindowStart
    \/ StartFindBestNextFile
    \/ \E i \in 1..Len(call.candidates) : WorkerAppend(i)
    \/ \E i \in 1..Len(call.candidates) : WorkerCompress(i)
    \/ \E i \in 1..Len(call.candidates) : WorkerSend(i)
    \/ CloseResults
    \/ ReceiveResult
    \/ ReturnBestIdx
    \/ ChainAppend
    \/ CreateOutput
    \/ Validate
    \/ WriteOutput
    \/ Return

SpecWorkers == InitWorkers /\ [][NextWorkers]_vars

\* squeezetgz.go:358-371  the collecting loop of the calling goroutine and
\* its return.
Collector == ReceiveResult \/ ReturnBestIdx

\* The Go scheduler runs a goroutine that stays ready to run: the closing
\* goroutine once wg.Wait() returns, and the caller in its collecting loop
\* whenever a result is waiting or the channel is closed.
FairGoroutines == WF_vars(CloseResults) /\ WF_vars(Collector)

SpecWorkersFair == InitWorkers /\ [][NextWorkers]_vars /\ FairGoroutines

\* -------------------------------------------------- runs with a fault
\* A content block with one of its bytes changed: a block unlike any other.
Corrupted(block) == block + 5

\* A byte of the last block of an entry's content changes after extractTarGz took
\* the checksums and before validateChecksums runs: right after the load,
\* before the orderer, after it, or after the archive was built.
\* FirstWindow and LastWindow are slices of the same array and change
\* with it.
MutateContent ==
    /\ pc \in {"windows", "optimize", "combine", "validate"}
    /\ fault = "none"
    /\ \E i \in 1..Len(heap) :
        /\ Len(heap[i].Content) > 0
        /\ LET content ==
                   [heap[i].Content EXCEPT ![Len(heap[i].Content)] = Corrupted(@)]
           IN
           heap' = [heap EXCEPT
                       ![i].Content = content,
                       ![i].FirstWindow =
                           IF pc = "windows" THEN @ ELSE FirstWindowOf(content),
                       ![i].LastWindow =
                           IF pc = "windows" THEN @ ELSE LastWindowOf(content)]
    /\ fault' = "content"
    /\ UNCHANGED <<side, failAt, inputBytes, previous, call, mode, archive, pc, files, regularFiles, specialFiles, ordered,
                   remaining, bestOrder, bestSize, evals, orderedFiles,
                   optimizedTarGz, outputFile, err, result, validated>>

\* The assembled ordering loses its last entry before it is validated.
DropOrdered ==
    /\ pc = "validate"
    /\ fault = "none"
    /\ Len(orderedFiles) > 0
    /\ orderedFiles' = SubSeq(orderedFiles, 1, Len(orderedFiles) - 1)
    /\ fault' = "dropped"
    /\ UNCHANGED <<side, failAt, inputBytes, previous, call, mode, archive, pc, heap, files, regularFiles, specialFiles,
                   ordered, remaining, bestOrder, bestSize, evals, optimizedTarGz,
                   outputFile, err, result, validated>>

NextFault ==
    \/ Next
    \/ MutateContent
    \/ DropOrdered

SpecFault == Init /\ [][NextFault]_vars

\* ------------------------------------- runs with a failed scoring call
\* The number of orders permuteAndCompress scores for n files.
RECURSIVE Factorial(_)
Factorial(n) == IF n <= 1 THEN 1 ELSE n * Factorial(n - 1)

\* One call made to score a permutation or a candidate returns an error:
\* a createTarGz call of the search about to run (line 241), the
\* compressBytes call for a file findBestStartFile does not skip (line 278),
\* or the compressBytes call of a worker of the next findBestNextFile call
\* (line 335).
FailScoring ==
    /\ fault = "none"
    /\ \/ /\ pc = "permute"
          /\ Len(regularFiles) <= MaxFiles
          /\ \E n \in 1..Factorial(Len(regularFiles)) :
                 failAt' = [site |-> "permute", call |-> n]
       \/ /\ pc = "optimize"
          /\ mode = WindowMode
          /\ \E i \in 1..Len(regularFiles) :
                 /\ ByteLen(heap[regularFiles[i]].Content) >= halfWindowSize * 2
                 /\ failAt' = [site |-> "start", call |-> i]
       \/ /\ pc = "chain"
          /\ \E i \in 1..Len(remaining) :
                 failAt' = [site |-> "next", call |-> i]
    /\ fault' = "scoring"
    /\ UNCHANGED <<side, inputBytes, previous, call, mode, archive, pc, heap, files,
                   regularFiles, specialFiles, ordered, remaining, bestOrder,
                   bestSize, evals, orderedFiles, optimizedTarGz, outputFile,
                   err, result, validated>>

NextScoring ==
    \/ Next
    \/ FailScoring

SpecScoring == Init /\ [][NextScoring]_vars

\* ------------------------------------------ a second run on the output
\* squeezetgz.go:46-57  OptimizeTarGz called again, in the same mode, with
\* the file the run before wrote (line 118) as its input: the entries read
\* are those createTarGz wrote, in the order it wrote them, and the length
\* of the input is the length of that file.  previous keeps the first
\* output.
Rerun ==
    /\ pc = "done"
    /\ err = "none"
    /\ outputFile # <<>>
    /\ previous = <<>>
    /\ previous' = outputFile
    /\ archive' = [k \in 1..Len(outputFile[1].entries) |->
                      [Header |-> outputFile[1].entries[k].Header,
                       Data |-> outputFile[1].entries[k].Content]]
    /\ inputBytes' = outputFile[1].size
    /\ pc' = "extract"
    /\ heap' = <<>>
    /\ files' = NoTarFiles
    /\ regularFiles' = NoTarFiles
    /\ specialFiles' = NoTarFiles
    /\ ordered' = NoTarFiles
    /\ remaining' = NoTarFiles
    /\ bestOrder' = NoTarFiles
    /\ bestSize' = 0
    /\ evals' = 0
    /\ orderedFiles' = NoTarFiles
    /\ optimizedTarGz' = <<>>
    /\ outputFile' = <<>>
    /\ result' = <<>>
    /\ validated' = "no"
    /\ UNCHANGED <<side, mode, err, fault, failAt, call>>

NextRerun ==
    \/ Next
    \/ Rerun

SpecRerun == Init /\ [][NextRerun]_vars

\* ------------------------------------- both modes on the crafted fixture
InitFixture ==
    /\ archive \in FixtureArchives
    /\ mode = BruteForceMode
    /\ pc = "extract"
    /\ heap = <<>>
    /\ files = NoTarFiles
    /\ regularFiles = NoTarFiles
    /\ specialFiles = NoTarFiles
    /\ ordered = NoTarFiles
    /\ remaining = NoTarFiles
    /\ bestOrder = NoTarFiles
    /\ bestSize = 0
    /\ evals = 0
    /\ orderedFiles = NoTarFiles
    /\ optimizedTarGz = <<>>
    /\ outputFile = <<>>
    /\ err = "none"
    /\ result = <<>>
    /\ validated = "no"
    /\ fault = "none"
    /\ failAt = NoFailure
    /\ inputBytes = compressBytes(TarStream([k \in 1..Len(archive) |->
                                                NewTarFile(archive[k])],
                                            [k \in 1..Len(archive) |-> k]))
    /\ previous = <<>>
    /\ call = NoCall
    /\ SideIdle

\* squeezetgz_test.go:156-209  the test calls OptimizeTarGz on the same
\* input file once in each mode; the two runs share nothing but the input.
\* Here the run in window mode follows the run in brute-force mode, and
\* previous keeps the output of the first.
RunWindowMode ==
    /\ pc = "done"
    /\ err = "none"
    /\ outputFile # <<>>
    /\ mode = BruteForceMode
    /\ previous = <<>>
    /\ previous' = outputFile
    /\ mode' = WindowMode
    /\ pc' = "extract"
    /\ heap' = <<>>
    /\ files' = NoTarFiles
    /\ regularFiles' = NoTarFiles
    /\ specialFiles' = NoTarFiles
    /\ ordered' = NoTarFiles
    /\ remaining' = NoTarFiles
    /\ bestOrder' = NoTarFiles
    /\ bestSize' = 0
    /\ evals' = 0
    /\ orderedFiles' = NoTarFiles
    /\ optimizedTarGz' = <<>>
    /\ outputFile' = <<>>
    /\ result' = <<>>
    /\ validated' = "no"
    /\ UNCHANGED <<side, archive, inputBytes, err, fault, failAt, call>>

NextFixture ==
    \/ Next
    \/ RunWindowMode

SpecFixture == InitFixture /\ [][NextFixture]_vars

\* ------------------------------------- validateChecksums on any two lists
\* The objects the lists point to: two regular files of equal content and
\* different headers, a regular file with the first one's header and other
\* content, and a symbolic link.
ValidateEntries ==
    << RegEntry(1, <<1, 2>>), RegEntry(2, <<1, 2>>), RegEntry(1, <<2, 1>>),
       SpecialEntry(3, TypeSymlink, 1) >>

InitValidate ==
    /\ mode = WindowMode
    /\ heap = [k \in 1..Len(ValidateEntries) |-> NewTarFile(ValidateEntries[k])]
    /\ files \in SeqsUpTo(1..Len(ValidateEntries), MaxFiles)
    /\ orderedFiles \in SeqsUpTo(1..Len(ValidateEntries), MaxFiles)
    /\ archive = [k \in 1..Len(files) |-> ValidateEntries[files[k]]]
    /\ pc = "validate"
    /\ regularFiles = NoTarFiles
    /\ specialFiles = NoTarFiles
    /\ ordered = NoTarFiles
    /\ remaining = NoTarFiles
    /\ bestOrder = NoTarFiles
    /\ bestSize = 0
    /\ evals = 0
    /\ optimizedTarGz =
           <<[entries |-> createTarGz(heap, orderedFiles).entries,
              size |-> createTarGz(heap, orderedFiles).size]>>
    /\ outputFile = <<>>
    /\ err = "none"
    /\ result = <<>>
    /\ validated = "no"
    /\ fault = "none"
    /\ failAt = NoFailure
    /\ inputBytes \in InputLengths(archive)
    /\ previous = <<>>
    /\ call = NoCall
    /\ SideIdle

NextValidate ==
    \/ Validate
    \/ WriteOutput
    \/ Return

SpecValidate == InitValidate /\ [][NextValidate]_vars

\* ------------------------------------------ archives around the capacity
\* An archive of nReg regular entries followed by nSpec symbolic links.
CapArchive(nReg, nSpec) ==
    [k \in 1..(nReg + nSpec) |->
        IF k <= nReg
        THEN RegEntry(k, <<1 + (k % 2)>>)
        ELSE SpecialEntry(k, TypeSymlink, 1)]

CapArchives ==
    {CapArchive(nReg, nSpec) : nReg \in 0..(MaxBruteForceFiles + 1),
                               nSpec \in 0..(MaxBruteForceFiles + 1)}

\* Window mode is run on the archives of at most MaxFiles entries only.
InitCap ==
    /\ archive \in CapArchives
    /\ mode \in Modes
    /\ mode = WindowMode => Len(archive) <= MaxFiles
    /\ pc = "extract"
    /\ heap = <<>>
    /\ files = NoTarFiles
    /\ regularFiles = NoTarFiles
    /\ specialFiles = NoTarFiles
    /\ ordered = NoTarFiles
    /\ remaining = NoTarFiles
    /\ bestOrder = NoTarFiles
    /\ bestSize = 0
    /\ evals = 0
    /\ orderedFiles = NoTarFiles
    /\ optimizedTarGz = <<>>
    /\ outputFile = <<>>
    /\ err = "none"
    /\ result = <<>>
    /\ validated = "no"
    /\ fault = "none"
    /\ failAt = NoFailure
    /\ inputBytes \in InputLengths(archive)
    /\ previous = <<>>
    /\ call = NoCall
    /\ SideIdle

SpecCap == InitCap /\ [][Next]_vars

\* --------------------------- the core at rest, while another program runs
\* No run of OptimizeTarGz is under way.
CoreIdle ==
    /\ mode = WindowMode
    /\ archive = <<>>
    /\ pc = "idle"
    /\ heap = <<>>
    /\ files = NoTarFiles
    /\ regularFiles = NoTarFiles
    /\ specialFiles = NoTarFiles
    /\ ordered = NoTarFiles
    /\ remaining = NoTarFiles
    /\ bestOrder = NoTarFiles
    /\ bestSize = 0
    /\ evals = 0
    /\ orderedFiles = NoTarFiles
    /\ optimizedTarGz = <<>>
    /\ outputFile = <<>>
    /\ err = "none"
    /\ result = <<>>
    /\ validated = "no"
    /\ fault = "none"
    /\ failAt = NoFailure
    /\ inputBytes = 0
    /\ previous = <<>>
    /\ call = NoCall

core == <<mode, archive, pc, heap, files, regularFiles, specialFiles, ordered,
          remaining, bestOrder, bestSize, evals, orderedFiles, optimizedTarGz,
          outputFile, err, result, validated, fault, failAt, inputBytes,
          previous, call>>

\* ------------------------- unnamed/part_002: write a tar.gz, read it back
\* archive/tar's Typeflag and Format values of a header made in memory and
\* not filled in: TypeRegA is the zero byte, FormatUnknown the zero Format.
TypeRegA == "regA"
FormatUnknown == "unknown"
FormatUSTAR == "ustar"

\* time.Time{}, the ModTime of a header made without one; other times are
\* whole seconds since the epoch.
ZeroTime == 0 - 1

\* part_002:15  a TarFile{Header, Data} of package main, with the fields of
\* tar.Header that the round trip touches.
MainEntry(typeflag, name, size, modTime, format, data) ==
    [Header |-> [Typeflag |-> typeflag, Name |-> name, Size |-> size,
                 ModTime |-> modTime, Format |-> format],
     Data |-> data]

\* squeeze_test.go:11-35  entries as the test makes them (Name, Mode and Size
\* set, nothing else), entries as readTarGZ returns them, and an entry whose
\* Data is longer than its header says.
RoundTripPool ==
    { MainEntry(TypeRegA, 1, 2, ZeroTime, FormatUnknown, <<1, 2>>),
      MainEntry(TypeRegA, 2, 2, ZeroTime, FormatUnknown, <<3, 1>>),
      MainEntry(TypeReg, 1, 2, 1000, FormatUSTAR, <<1, 2>>),
      MainEntry(TypeReg, 2, 1, 1000, FormatUSTAR, <<3>>),
      MainEntry(TypeReg, 3, 0, 1000, FormatUSTAR, <<>>),
      MainEntry(TypeReg, 3, 1, 1000, FormatUSTAR, <<1, 2>>) }

\* part_002:102, 114  fmt.Sprintf("%v", f.Header): the fields of the header
\* the pointer leads to, printed one after the other; equal exactly for
\* headers equal in every field.
Sprintf(header) == [text |-> header]

\* part_002:99  checksumFiles.
checksumFiles(tarFiles) ==
    [i \in 1..Len(tarFiles) |->
        [hdr |-> Sum256(Sprintf(tarFiles[i].Header)),
         data |-> Sum256(tarFiles[i].Data)]]

\* part_002:109  validateChecksums of package main: position by position.
validateChecksumsMain(tarFiles, sums) ==
    IF Len(tarFiles) # Len(sums)
    THEN FALSE
    ELSE \A i \in 1..Len(tarFiles) :
             /\ Sum256(Sprintf(tarFiles[i].Header)) = sums[i].hdr
             /\ Sum256(tarFiles[i].Data) = sums[i].data

\* part_002:73  tar.Writer.WriteHeader: the header block as stored.  The
\* writer promotes TypeRegA to TypeReg, stores the zero ModTime as the epoch
\* and, for a header of Format unknown, picks the USTAR layout.
WriteHeader(header) ==
    [typeflag |-> IF header.Typeflag = TypeRegA THEN TypeReg ELSE header.Typeflag,
     name |-> header.Name,
     size |-> header.Size,
     mtime |-> IF header.ModTime = ZeroTime THEN 0 ELSE header.ModTime,
     magic |-> IF header.Format = FormatUnknown THEN FormatUSTAR ELSE header.Format]

\* part_002:58  writeTarGZ: the file written, or the error of tar.Writer for
\* an entry whose Data is not as long as its header says (Write refuses the
\* surplus, the next WriteHeader or Close refuses a shortfall).
writeTarGZ(tarFiles) ==
    IF \E i \in 1..Len(tarFiles) : Len(tarFiles[i].Data) # tarFiles[i].Header.Size
    THEN [err |-> TRUE, blocks |-> <<>>]
    ELSE [err |-> FALSE,
          blocks |-> [i \in 1..Len(tarFiles) |->
                         [header |-> WriteHeader(tarFiles[i].Header),
                          data |-> tarFiles[i].Data]]]

\* part_002:25  readTarGZ: tar.Reader.Next gives the header as stored, with
\* the Format it recognised, and hdr.Size bytes of data follow.
readTarGZ(file) ==
    [i \in 1..Len(file.blocks) |->
        [Header |-> [Typeflag |-> file.blocks[i].header.typeflag,
                     Name |-> file.blocks[i].header.name,
                     Size |-> file.blocks[i].header.size,
                     ModTime |-> file.blocks[i].header.mtime,
                     Format |-> file.blocks[i].header.magic],
         Data |-> SubSeq(file.blocks[i].data, 1, file.blocks[i].header.size)]]

\* squeeze_test.go:62-80  TestWriteRead, for any list of entries.
InitRoundTrip ==
    /\ CoreIdle
    /\ cli = NoCli
    /\ permuting = NoGen
    /\ squeeze = NoSqueeze
    /\ roundTrip \in {[pc |-> "checksum", files |-> fs, sums |-> <<>>,
                       tmp |-> <<>>, out |-> <<>>, ok |-> FALSE] :
                         fs \in SeqsUpTo(RoundTripPool, MaxFiles)}

\* squeeze_test.go:64  sums := checksumFiles(files)
ChecksumFiles ==
    /\ roundTrip.pc = "checksum"
    /\ roundTrip' = [roundTrip EXCEPT !.pc = "write",
                                      !.sums = checksumFiles(roundTrip.files)]
    /\ UNCHANGED <<core, cli, permuting, squeeze>>

\* squeeze_test.go:69-71  writeTarGZ(tmp.Name(), files); the test stops on
\* an error.
WriteTarGZ ==
    /\ roundTrip.pc = "write"
    /\ LET file == writeTarGZ(roundTrip.files) IN
       roundTrip' = IF file.err
                    THEN [roundTrip EXCEPT !.pc = "failed"]
                    ELSE [roundTrip EXCEPT !.pc = "read", !.tmp = <<file>>]
    /\ UNCHANGED <<core, cli, permuting, squeeze>>

\* squeeze_test.go:73-76  out, err := readTarGZ(tmp.Name())
ReadTarGZ ==
    /\ roundTrip.pc = "read"
    /\ roundTrip' = [roundTrip EXCEPT !.pc = "validate",
                                      !.out = readTarGZ(roundTrip.tmp[1])]
    /\ UNCHANGED <<core, cli, permuting, squeeze>>

\* squeeze_test.go:77-79  validateChecksums(out, sums)
ValidateReadBack ==
    /\ roundTrip.pc = "validate"
    /\ roundTrip' = [roundTrip EXCEPT
                        !.pc = "done",
                        !.ok = validateChecksumsMain(roundTrip.out, roundTrip.sums)]
    /\ UNCHANGED <<core, cli, permuting, squeeze>>

NextRoundTrip ==
    \/ ChecksumFiles
    \/ WriteTarGZ
    \/ ReadTarGZ
    \/ ValidateReadBack

SpecRoundTrip == InitRoundTrip /\ [][NextRoundTrip]_vars

\* ------------------------------------ main.go: the root package's program
\* main.go:57-59  the tar stream compressTarGz writes: every header goes
\* out with hdr.Size = len(f.Data).
mainHeap(tarFiles) ==
    [k \in 1..Len(tarFiles) |->
        [Header |-> [tarFiles[k].Header EXCEPT !.Size = Len(tarFiles[k].Data)],
         Content |-> tarFiles[k].Data]]

\* main.go:53  compressTarGz(files): len() of the bytes it returns.
compressTarGz(tarFiles) ==
    compressBytes(TarStream(mainHeap(tarFiles),
                            [k \in 1..Len(tarFiles) |-> k]))

\* main.go:114-133  the closure permute(i) of reorderBrute: st holds idx,
\* bestOrder and bestSize; positions and indices are 1-based.
RECURSIVE permuteIdx(_, _, _)
RECURSIVE permuteIdxLoop(_, _, _, _)
permuteIdx(tarFiles, st, i) ==
    IF i = Len(st.idx) + 1
    THEN LET arranged == [j \in 1..Len(st.idx) |-> tarFiles[st.idx[j]]]
             size == compressTarGz(arranged)
         IN  IF size < st.bestSize
             THEN [st EXCEPT !.bestSize = size, !.bestOrder = st.idx]
             ELSE st
    ELSE permuteIdxLoop(tarFiles, st, i, i)

\* main.go:128-132  the for loop of permute(i) from j on.
permuteIdxLoop(tarFiles, st, i, j) ==
    IF j > Len(st.idx)
    THEN st
    ELSE LET swapped == [st EXCEPT !.idx = Swap(@, i, j)]
             after == permuteIdx(tarFiles, swapped, i + 1)
         IN  permuteIdxLoop(tarFiles, [after EXCEPT !.idx = Swap(@, i, j)], i, j + 1)

\* main.go:104  reorderBrute(files).
reorderBrute(tarFiles) ==
    LET n == Len(tarFiles)
        st == permuteIdx(tarFiles,
                         [idx |-> [k \in 1..n |-> k],
                          bestOrder |-> [k \in 1..n |-> 1],
                          bestSize |-> MaxInt64], 1)
    IN  [i \in 1..n |-> tarFiles[st.bestOrder[i]]]

\* reorderWindow returning the files in the order given.
reorderWindowInputOrder(tarFiles) == tarFiles

\* main.go:98  reorderWindow(files): the brute-force search again.
reorderWindow(tarFiles) == reorderBrute(tarFiles)

\* main.go:145-149  the bytes checksums hashes for one file: the name, then
\* the data.
nameAndData(file) == <<PathBase + file.Header.Name>> \o file.Data

\* main.go:142  checksums(files): one sum per file, in the order of files.
checksums(tarFiles) ==
    [i \in 1..Len(tarFiles) |-> Sum256(nameAndData(tarFiles[i]))]

\* main.go:155-177  main up to loadTarGz: the flags are parsed and the
\* entries of the input archive are loaded, all with their data.
InitCli ==
    /\ CoreIdle
    /\ roundTrip = NoRoundTrip
    /\ permuting = NoGen
    /\ squeeze = NoSqueeze
    /\ cli \in {[pc |-> "recompress", useBrute |-> b, files |-> fs,
                 origSize |-> 0, ordered |-> <<>>, newSize |-> 0,
                 outFile |-> <<>>, printed |-> FALSE, status |-> 0] :
                   b \in BOOLEAN, fs \in SeqsUpTo(EntryPool, MaxFiles)}

\* main.go:179-183  origData, err := compressTarGz(files)
RecompressInput ==
    /\ cli.pc = "recompress"
    /\ cli' = [cli EXCEPT !.pc = "reorder", !.origSize = compressTarGz(cli.files)]
    /\ UNCHANGED <<core, roundTrip, permuting, squeeze>>

\* main.go:185-190  reorderBrute with --brute, reorderWindow without.
Reorder ==
    /\ cli.pc = "reorder"
    /\ cli' = [cli EXCEPT !.pc = "compress",
                          !.ordered = IF cli.useBrute
                                      THEN reorderBrute(cli.files)
                                      ELSE reorderWindow(cli.files)]
    /\ UNCHANGED <<core, roundTrip, permuting, squeeze>>

\* main.go:192-201  newData := compressTarGz(ordered), written to outPath.
WriteNewData ==
    /\ cli.pc = "compress"
    /\ cli' = [cli EXCEPT !.pc = "print",
                          !.newSize = compressTarGz(cli.ordered),
                          !.outFile = <<cli.ordered>>]
    /\ UNCHANGED <<core, roundTrip, permuting, squeeze>>

\* main.go:203-215  the Before and After lines.
PrintSizes ==
    /\ cli.pc = "print"
    /\ cli' = [cli EXCEPT !.pc = "checksums", !.printed = TRUE]
    /\ UNCHANGED <<core, roundTrip, permuting, squeeze>>

\* main.go:217-225  expected and got are compared position by position;
\* the first difference ends the run with "checksum mismatch after
\* reordering" and status 1.
ValidateCli ==
    /\ cli.pc = "checksums"
    /\ LET expected == checksums(cli.files)
           got == checksums(cli.ordered)
       IN  cli' = [cli EXCEPT
                      !.pc = "exit",
                      !.status = IF \E i \in 1..Len(expected) : expected[i] # got[i]
                                 THEN 1 ELSE 0]
    /\ UNCHANGED <<core, roundTrip, permuting, squeeze>>

NextCli ==
    \/ RecompressInput
    \/ Reorder
    \/ WriteNewData
    \/ PrintSizes
    \/ ValidateCli

SpecCli == InitCli /\ [][NextCli]_vars

\* ------------------------------------------- the permutation generators
\* The largest array a generator is run on.
MaxPermute == 4

\* squeezetgz.go:238-264  the orders permuteAndCompress(fs, index) hands to
\* createTarGz, in the order it reaches them.
RECURSIVE GenOrder(_, _)
RECURSIVE GenLoop(_, _, _)
GenOrder(fs, index) ==
    IF index = Len(fs) + 1 THEN <<fs>> ELSE GenLoop(fs, index, index)

GenLoop(fs, index, i) ==
    IF i > Len(fs)
    THEN <<>>
    ELSE GenOrder(Swap(fs, index, i), index + 1) \o GenLoop(fs, index, i + 1)

\* unnamed/part_002:186-199  helper(i) of permute(files, fn): st holds files
\* and the copies fn has been called with; positions are 1-based.
RECURSIVE helper(_, _)
RECURSIVE helperLoop(_, _, _)
helper(st, i) ==
    IF i = Len(st.files) + 1
    THEN [st EXCEPT !.visited = Append(@, st.files)]
    ELSE helperLoop(st, i, i)

\* unnamed/part_002:194-198  the for loop of helper(i) from j on.
helperLoop(st, i, j) ==
    IF j > Len(st.files)
    THEN st
    ELSE LET swapped == [st EXCEPT !.files = Swap(@, i, j)]
             after == helper(swapped, i + 1)
         IN  helperLoop([after EXCEPT !.files = Swap(@, i, j)], i, j + 1)

\* unnamed/part_000:297  sort.Ints(a)
sortInts(a) ==
    LET by == CHOOSE p \in Permutations(1..Len(a)) :
                  \A k \in 1..(Len(a) - 1) : a[p[k]] <= a[p[k + 1]]
    IN  [k \in 1..Len(a) |-> a[by[k]]]

\* unnamed/part_000:308-311  for i >= 0 && x[i] >= x[i+1] { i-- }, on
\* 1-based positions: the result 0 is the code's i < 0.
RECURSIVE descend(_, _)
descend(x, i) ==
    IF i >= 1 /\ x[i] >= x[i + 1] THEN descend(x, i - 1) ELSE i

\* unnamed/part_000:315-318  for x[j] <= x[i] { j-- }
RECURSIVE findLarger(_, _, _)
findLarger(x, i, j) ==
    IF x[j] <= x[i] THEN findLarger(x, i, j - 1) ELSE j

\* unnamed/part_000:320-322  the positions after i are reversed.
reverseAfter(x, i) ==
    [k \in 1..Len(x) |-> IF k <= i THEN x[k] ELSE x[Len(x) + i + 1 - k]]

\* nextPermutation without the reversal of the positions after i.
nextPermutationNoReverse(x) ==
    LET i == descend(x, Len(x) - 1)
    IN  IF i < 1
        THEN [ok |-> FALSE, x |-> x]
        ELSE [ok |-> TRUE, x |-> Swap(x, i, findLarger(x, i, Len(x)))]

\* unnamed/part_000:306  nextPermutation(x): the answer and x afterwards.
nextPermutation(x) ==
    LET i == descend(x, Len(x) - 1)
    IN  IF i < 1
        THEN [ok |-> FALSE, x |-> x]
        ELSE [ok |-> TRUE,
              x |-> reverseAfter(Swap(x, i, findLarger(x, i, Len(x))), i)]

\* The index arrays 0..n-1 in any arrangement, n up to MaxPermute.
IndexArrays ==
    UNION {{[k \in 1..n |-> p[k] - 1] : p \in Permutations(1..n)} :
              n \in 0..MaxPermute}

\* A generator is about to run on an index array: permuteAndCompress
\* (squeezetgz.go:238), permute of unnamed/part_002 (line 185) or permute of
\* unnamed/part_000 (line 296).
InitPermute ==
    /\ CoreIdle
    /\ roundTrip = NoRoundTrip
    /\ cli = NoCli
    /\ squeeze = NoSqueeze
    /\ permuting \in {[pc |-> "start", generator |-> g, input |-> a, a |-> a,
                 visited |-> <<>>] :
                   g \in {"permuteAndCompress", "helper", "nextPermutation"},
                   a \in IndexArrays}

\* squeezetgz.go:238-264  permuteAndCompress(files, 0, ...): the orders it
\* evaluates.
RunPermuteAndCompress ==
    /\ permuting.pc = "start"
    /\ permuting.generator = "permuteAndCompress"
    /\ permuting' = [permuting EXCEPT !.pc = "done", !.visited = GenOrder(permuting.a, 1)]
    /\ UNCHANGED <<core, roundTrip, cli, squeeze>>

\* unnamed/part_002:185-201  permute(files, fn)
RunHelper ==
    /\ permuting.pc = "start"
    /\ permuting.generator = "helper"
    /\ LET st == helper([files |-> permuting.a, visited |-> <<>>], 1)
       IN  permuting' = [permuting EXCEPT !.pc = "done", !.a = st.files,
                              !.visited = st.visited]
    /\ UNCHANGED <<core, roundTrip, cli, squeeze>>

\* unnamed/part_000:297  permute(a, f) sorts a first.
SortInts ==
    /\ permuting.pc = "start"
    /\ permuting.generator = "nextPermutation"
    /\ permuting' = [permuting EXCEPT !.pc = "loop", !.a = sortInts(permuting.a)]
    /\ UNCHANGED <<core, roundTrip, cli, squeeze>>

\* unnamed/part_000:298-303  one turn of the loop of permute: f(a), then
\* nextPermutation(a), whose answer false ends the loop.
VisitAndAdvance ==
    /\ permuting.pc = "loop"
    /\ LET next == nextPermutation(permuting.a)
       IN  permuting' = [permuting EXCEPT !.pc = IF next.ok THEN "loop" ELSE "done",
                              !.a = next.x,
                              !.visited = Append(@, permuting.a)]
    /\ UNCHANGED <<core, roundTrip, cli, squeeze>>

NextPermute ==
    \/ RunPermuteAndCompress
    \/ RunHelper
    \/ SortInts
    \/ VisitAndAdvance

SpecPermute == InitPermute /\ [][NextPermute]_vars

\* --------------------------- unnamed/part_000: package squeeze, ModeWindow
\* unnamed/part_000:189-196  appendHeaderData(h, d): the tar stream of one
\* entry, trailer included.
appendHeaderData(h, d) == headerBlock(h) \o d \o <<0, 0>>

\* unnamed/part_000:219-223  f.Data[start:], the last windowSize/2 bytes.
dataTail(data) ==
    IF ByteLen(data) > windowSize \div 2
    THEN Slice(data, Len(data) - (windowSize \div 2) \div BlockBytes, Len(data))
    ELSE data

\* unnamed/part_000:241-245  files[i].Data[:endNext], the first
\* windowSize/2 bytes.
dataHead(data) ==
    IF windowSize \div 2 > ByteLen(data)
    THEN data
    ELSE Slice(data, 0, (windowSize \div 2) \div BlockBytes)

\* unnamed/part_000:259-265  gzipSize(b)
gzipSize(b) == compressBytes(b)

\* unnamed/part_000:217  bestScore := 1<<31 - 1
InitialBestScore == 2147483647

\* Process has read the archive (unnamed/part_000:44, 75-109) and is about
\* to call orderWindow; indices are the code's, from 0, and file i is
\* files[i + 1].
InitSqueeze ==
    /\ CoreIdle
    /\ roundTrip = NoRoundTrip
    /\ cli = NoCli
    /\ permuting = NoGen
    /\ squeeze \in {[pc |-> "first", files |-> fs, remaining |-> {},
                     order |-> <<>>, out |-> <<>>, err |-> "none"] :
                       fs \in SeqsUpTo(EntryPool, MaxFiles)}

\* unnamed/part_000:207-230  orderWindow up to its loop: the file whose
\* tail compresses best, the first of them in input order, opens the
\* order, whether one was found or not.
PickFirst ==
    /\ squeeze.pc = "first"
    /\ LET n == Len(squeeze.files)
           score(i) == gzipSize(dataTail(squeeze.files[i + 1].Data))
           lower == {i \in 0..(n - 1) :
                        /\ score(i) < InitialBestScore
                        /\ \A j \in 0..(n - 1) :
                               score(i) < score(j) \/ (score(i) = score(j) /\ i <= j)}
           best == IF lower = {} THEN 0 - 1 ELSE CHOOSE i \in lower : TRUE
           rest == (0..(n - 1)) \ {best}
       IN  squeeze' = [squeeze EXCEPT
                          !.order = <<best>>,
                          !.remaining = rest,
                          !.pc = IF rest = {} THEN "write" ELSE "next"]
    /\ UNCHANGED <<core, roundTrip, cli, permuting>>

\* unnamed/part_000:232-254  one turn of the loop of orderWindow: the
\* remaining file that compresses best behind the tail of the last one; the
\* map is walked in any order, so any of the best may be the one kept.
PickNext ==
    /\ squeeze.pc = "next"
    /\ LET prev == squeeze.files[squeeze.order[Len(squeeze.order)] + 1]
           score(i) == gzipSize(dataTail(prev.Data)
                                    \o dataHead(squeeze.files[i + 1].Data))
       IN  \E best \in squeeze.remaining :
               /\ score(best) < InitialBestScore
               /\ \A j \in squeeze.remaining : score(best) <= score(j)
               /\ squeeze' = [squeeze EXCEPT
                                 !.order = Append(@, best),
                                 !.remaining = @ \ {best},
                                 !.pc = IF squeeze.remaining = {best}
                                        THEN "write" ELSE "next"]
    /\ UNCHANGED <<core, roundTrip, cli, permuting>>

\* unnamed/part_000:111-141  writeArchive writes files[idx] for every idx of
\* order; an index that is no position of files stops the program with
\* "index out of range".
WriteArchive ==
    /\ squeeze.pc = "write"
    /\ IF \E k \in 1..Len(squeeze.order) :
              squeeze.order[k] \notin 0..(Len(squeeze.files) - 1)
       THEN squeeze' = [squeeze EXCEPT !.pc = "done", !.err = "panic"]
       ELSE squeeze' = [squeeze EXCEPT
                           !.pc = "validate",
                           !.out = [k \in 1..Len(squeeze.order) |->
                                       squeeze.files[squeeze.order[k] + 1]]]
    /\ UNCHANGED <<core, roundTrip, cli, permuting>>

\* unnamed/part_000:148-187  validate reads the archive back and compares
\* the checksum of entry i with files[order[i]].Sum.
ValidateArchive ==
    /\ squeeze.pc = "validate"
    /\ LET sum(f) == Sum256(appendHeaderData(f.Header, f.Data))
       IN  squeeze' = [squeeze EXCEPT
                          !.pc = "done",
                          !.err = IF \E i \in 1..Len(squeeze.out) :
                                         sum(squeeze.out[i]) #
                                             sum(squeeze.files[squeeze.order[i] + 1])
                                  THEN "checksum" ELSE "none"]
    /\ UNCHANGED <<core, roundTrip, cli, permuting>>

NextSqueeze ==
    \/ PickFirst
    \/ PickNext
    \/ WriteArchive
    \/ ValidateArchive

SpecSqueeze == InitSqueeze /\ [][NextSqueeze]_vars

\* ---------------------------------------------------------- properties
\* The (contentDigest, headerDigest) pairs of a list of pointers.
PairsOf(h, fs) == [k \in 1..Len(fs) |-> <<h[fs[k]].Checksum, h[fs[k]].HeaderHash>>]

\* The pairs of the entries of the input archive, taken from the input.
InputPairs ==
    [k \in 1..Len(archive) |->
        <<Sum256(IF archive[k].Header.Typeflag = TypeReg
                 THEN archive[k].Data ELSE <<>>),
          Sum256(headerBlock(archive[k].Header))>>]

Count(s, x) == Cardinality({k \in 1..Len(s) : s[k] = x})

SameMultiset(s, t) == \A x \in Range(s) \cup Range(t) : Count(s, x) = Count(t, x)

NumRegular(a) == Cardinality({k \in 1..Len(a) : a[k].Header.Typeflag = TypeReg})

\* The run is past the orderer and the ordering has been assembled.
OrderingProduced == optimizedTarGz # <<>>

\* C1: in either mode the ordering OptimizeTarGz produces has the same
\* multiset of (contentDigest, headerDigest) pairs as the input entry list,
\* and the orderer's own output is a rearrangement of the regular entries
\* it was given: nothing is dropped, duplicated or replaced.
C1_PermutationInvariant ==
    /\ pc = "combine" => SameMultiset(ordered, regularFiles)
    /\ OrderingProduced =>
          /\ SameMultiset(PairsOf(heap, orderedFiles), InputPairs)
          /\ SameMultiset(orderedFiles, files)

C1_Witness ==
    /\ pc = "done"
    /\ err = "none"
    /\ Len(archive) = MaxFiles
    /\ orderedFiles # files
    /\ specialFiles # <<>>

\* C2: the orderers return as many entries as they were given, the
\* assembled ordering is as long as the input list, and the archive written
\* holds as many entries as the input archive.
C2_CountInvariant ==
    /\ pc = "combine" => Len(ordered) = Len(regularFiles)
    /\ OrderingProduced =>
          /\ Len(orderedFiles) = Len(files)
          /\ Len(optimizedTarGz[1].entries) = Len(archive)
    /\ outputFile # <<>> => Len(outputFile[1].entries) = Len(archive)

C2_Witness ==
    /\ outputFile # <<>>
    /\ Len(outputFile[1].entries) = MaxFiles
    /\ specialFiles # <<>>
    /\ Len(regularFiles) > 1

\* Entry k of the candidate has a header digest no original entry has.
HeaderMiss(k) ==
    heap[orderedFiles[k]].HeaderHash \notin {heap[f].HeaderHash : f \in Range(files)}

\* Entry k of the candidate is regular with a content digest no original has.
ContentMiss(k) ==
    /\ heap[orderedFiles[k]].Header.Typeflag = TypeReg
    /\ heap[orderedFiles[k]].Checksum \notin {heap[f].Checksum : f \in Range(files)}

\* C3: validateChecksums rejects, and the run ends with the integrity error
\* and nothing written, whenever an entry of the candidate has a header
\* digest that is not an original's (any kind) or is regular with a content
\* digest that is not an original's; lists of equal length without such an
\* entry are accepted.
C3_ValidateRejects ==
    validated # "no" =>
        /\ (\E k \in 1..Len(orderedFiles) : HeaderMiss(k) \/ ContentMiss(k)) =>
               /\ validated = "rejected"
               /\ err = "integrity"
               /\ outputFile = <<>>
               /\ result = <<>>
        /\ validated = "rejected" <=>
               \/ Len(orderedFiles) # Len(files)
               \/ \E k \in 1..Len(orderedFiles) : HeaderMiss(k) \/ ContentMiss(k)

C3_Witness ==
    /\ validated = "rejected"
    /\ err = "integrity"
    /\ Len(orderedFiles) = Len(files)
    /\ \E k \in 1..Len(orderedFiles) :
           heap[orderedFiles[k]].Header.Typeflag # TypeReg /\ HeaderMiss(k)
    /\ \A k \in 1..Len(orderedFiles) : ~ContentMiss(k)

\* C4: every candidate validateChecksums accepts is a bijection onto the
\* input: as long as the input and with every input entry referenced as
\* often as the input holds it.
C4_AcceptedIsBijection ==
    validated = "accepted" => SameMultiset(orderedFiles, files)

\* C5: when a content byte of an entry changes after its digests were taken
\* and before validation, the run ends with the integrity error and the
\* output is not written.
C5_MutationDetected ==
    (fault = "content" /\ pc = "done") => (err = "integrity" /\ outputFile = <<>>)

\* C6: the output is written only after validateChecksums accepted the
\* ordering; once validation failed the output is never written, no result
\* is returned and the run ends with the integrity error.
C6_ValidateBeforeWrite ==
    /\ outputFile # <<>> => validated = "accepted"
    /\ pc \in {"write", "stats"} => validated = "accepted"
    /\ result # <<>> => (validated = "accepted" /\ outputFile # <<>> /\ err = "none")
    /\ validated = "rejected" =>
          /\ outputFile = <<>>
          /\ result = <<>>
          /\ err = "integrity"
          /\ pc = "done"

C6_Witness ==
    /\ validated = "rejected"
    /\ pc = "done"
    /\ err = "integrity"
    /\ outputFile = <<>>
    /\ optimizedTarGz # <<>>

\* The run has left optimizeBruteForce's checks behind.
PastBruteForceEnter == pc \notin {"extract", "windows", "separate", "optimize"}

C8_AnyKindCount ==
    (mode = BruteForceMode /\ Len(archive) > MaxBruteForceFiles /\ pc = "done") =>
        (err = "capacity" /\ outputFile = <<>>)

\* C8 amended: in brute-force mode an archive of more than 10 regular
\* entries never gets past the capacity check: the run ends with the
\* capacity error, no permutation evaluated and no output written.
C8_RegularCount ==
    (mode = BruteForceMode /\ NumRegular(archive) > MaxBruteForceFiles) =>
        /\ outputFile = <<>>
        /\ result = <<>>
        /\ optimizedTarGz = <<>>
        /\ evals = 0
        /\ PastBruteForceEnter => (pc = "done" /\ err = "capacity")

C8_Witness ==
    /\ mode = BruteForceMode
    /\ NumRegular(archive) = MaxBruteForceFiles + 1
    /\ Len(archive) > NumRegular(archive)
    /\ pc = "done"
    /\ err = "capacity"

\* C9: an orderer given zero entries returns the empty ordering and no
\* error, and a run on an archive of zero entries goes on to its end
\* without an error, writing an archive of zero entries.
C9_EmptyArchive ==
    /\ (regularFiles = <<>> /\ PastBruteForceEnter) => (ordered = <<>> /\ err = "none")
    /\ archive = <<>> =>
          /\ err = "none"
          /\ pc = "done" \/ ENABLED Next
          /\ pc = "done" =>
                (result # <<>> /\ outputFile # <<>> /\ outputFile[1].entries = <<>>)

C9_Witness ==
    /\ archive = <<>>
    /\ pc = "done"
    /\ err = "none"
    /\ result # <<>>
    /\ outputFile # <<>>

\* The list fs rearranged by the permutation p of its positions.
Rearranged(fs, p) == [k \in 1..Len(fs) |-> fs[p[k]]]

\* C10: the ordering the exhaustive search returns is a rearrangement of
\* its input whose archive, as createTarGz builds it, is no larger than the
\* archive of any other rearrangement.
C10_BruteForceOptimal ==
    (mode = BruteForceMode /\ pc = "combine") =>
        /\ SameMultiset(ordered, regularFiles)
        /\ \A p \in Permutations(1..Len(regularFiles)) :
               createTarGz(heap, ordered).size
                   <= createTarGz(heap, Rearranged(regularFiles, p)).size

C10_Witness ==
    /\ mode = BruteForceMode
    /\ pc = "combine"
    /\ Len(regularFiles) = MaxFiles
    /\ createTarGz(heap, ordered).size < createTarGz(heap, regularFiles).size

\* C11: the ordering the exhaustive search returns is the first one, in the
\* order the search generates them, whose archive has the minimal size:
\* every ordering generated before it is strictly larger, and no ordering
\* generated after it is smaller.
C11_FirstMinimumKept ==
    (mode = BruteForceMode /\ pc = "combine" /\ regularFiles # <<>>) =>
        LET gen == GenOrder(regularFiles, 1)
            size(k) == createTarGz(heap, gen[k]).size
        IN  \E k \in 1..Len(gen) :
                /\ ordered = gen[k]
                /\ \A j \in 1..(k - 1) : size(j) > size(k)
                /\ \A j \in (k + 1)..Len(gen) : size(j) >= size(k)

\* A search with at least two orderings of minimal size, the first of them
\* not the first generated.
C11_Witness ==
    /\ mode = BruteForceMode
    /\ pc = "combine"
    /\ Len(regularFiles) = MaxFiles
    /\ LET gen == GenOrder(regularFiles, 1)
           size(k) == createTarGz(heap, gen[k]).size
       IN  /\ ordered # gen[1]
           /\ \E k \in 1..Len(gen) :
                  gen[k] # ordered /\ size(k) = createTarGz(heap, ordered).size

\* C12: in exhaustive mode no ordering of the entries of the input archive,
\* whatever their kind, makes a smaller archive than the one written.
C12_GlobalOptimum ==
    (mode = BruteForceMode /\ outputFile # <<>>) =>
        \A p \in Permutations(1..Len(files)) :
            outputFile[1].size <= createTarGz(heap, Rearranged(files, p)).size

\* score(tailWindow) / len(tailWindow) of a regular file as num / den; the
\* empty window has ratio 0.
TailRatio(f) ==
    IF Len(heap[f].LastWindow) = 0
    THEN [num |-> 0, den |-> 1]
    ELSE [num |-> compressBytes(heap[f].LastWindow),
          den |-> ByteLen(heap[f].LastWindow)]

\* The window chain has its first entry.
ChainStarted == mode = WindowMode /\ pc \in {"chain", "combine"} /\ ordered # <<>>

\* C13: the entry the window chain builder places first has the highest
\* tail ratio of all the entries it was given, an empty tail window
\* counting as ratio 0.
C13_StartHasHighestTailRatio ==
    ChainStarted =>
        \A f \in Range(regularFiles) :
            ~RatioGreater(TailRatio(f).num, TailRatio(f).den,
                          TailRatio(ordered[1]).num, TailRatio(ordered[1]).den)

\* score(concat(tail, head)) / len(concat) for the tail window of last and
\* the head window of candidate, as num / den.
JointRatio(last, candidate) ==
    LET concat == heap[last].LastWindow \o heap[candidate].FirstWindow
    IN  [num |-> compressBytes(concat), den |-> ByteLen(concat)]

\* The entries not yet placed when the k-th entry of the chain was chosen.
RemainingAt(k) == Range(regularFiles) \ {ordered[x] : x \in 1..(k - 1)}

\* C14: every entry of the chain after the first has the least joint ratio
\* with the entry placed before it among the entries not yet placed at that
\* step (the ratios of non-empty concatenations are compared), and the
\* entries still remaining are those not placed.
C14_ChainStepMinimises ==
    ChainStarted =>
        /\ \A k \in 2..Len(ordered) :
               \A c \in RemainingAt(k) :
                   (JointRatio(ordered[k - 1], c).den > 0
                    /\ JointRatio(ordered[k - 1], ordered[k]).den > 0) =>
                       ~RatioLess(JointRatio(ordered[k - 1], c).num,
                                  JointRatio(ordered[k - 1], c).den,
                                  JointRatio(ordered[k - 1], ordered[k]).num,
                                  JointRatio(ordered[k - 1], ordered[k]).den)
        /\ pc = "chain" =>
               /\ Range(remaining) = RemainingAt(Len(ordered) + 1)
               /\ Len(remaining) + Len(ordered) = Len(regularFiles)

\* The call has returned and its result is not yet used.
CallReturned == call.pc = "returned"

\* C15: the index a findBestNextFile call returns is the only one the call
\* can return for its last entry and its candidates, whatever the order in
\* which the workers run and deliver their results.
C15_SameChoiceOnEveryRun ==
    CallReturned =>
        findBestNextFile(heap, call.lastFile, call.candidates) = {call.bestIdx}

\* C16: the bytes a worker of findBestNextFile compresses are
\* lastFile.LastWindow followed by its own candidate's header and
\* FirstWindow, whatever the other workers do.
C16_WorkersIndependent ==
    \A i \in 1..Len(call.candidates) :
        call.worker[i] \in {"send", "done"} =>
            call.read[i] = combined(heap, call.lastFile, call.candidates[i])

\* Every index a call returns is one findBestNextFile may return.
CallRefinesFindBestNextFile ==
    CallReturned =>
        call.bestIdx \in findBestNextFile(heap, call.lastFile, call.candidates)

\* C17: every failure inside the core is returned to the caller: a run in
\* which a call made to score a permutation (permuteAndCompress) or a
\* candidate (findBestStartFile, findBestNextFile) failed ends with an
\* error, never with a result.
C17_ScoringFailureReturned ==
    (pc = "done" /\ fault = "scoring") => (err # "none" /\ result = <<>>)

\* C18: the Before size a run reports is the size of the input archive's
\* entries recompressed, in input order, by the encoder that produces the
\* output (createTarGz), not the length of the input file as found.
C18_BeforeIsRecompressed ==
    result # <<>> => result[1].BeforeSize = createTarGz(heap, files).size

\* C19: running OptimizeTarGz again, in the same mode, on the archive a run
\* produced never yields a larger compressed output than that run did.
C19_RerunNotLarger ==
    (previous # <<>> /\ outputFile # <<>>)
        => outputFile[1].size <= previous[1].size

\* C20: on the crafted fixture (two regular entries sharing a head window,
\* two sharing a tail window, two random-noise entries) window mode and
\* brute-force mode write the same final entry order.
C20_ModesAgreeOnFixture ==
    (previous # <<>> /\ outputFile # <<>> /\ mode = WindowMode)
        => outputFile[1].entries = previous[1].entries

\* The TarFile objects as OptimizeTarGz holds them when it calls the
\* orderer: extracted from the input and with their windows prepared.
PreparedFiles ==
    [k \in 1..Len(archive) |->
        LET file == NewTarFile(archive[k]) IN
        IF file.Header.Typeflag = TypeReg
        THEN [file EXCEPT !.FirstWindow = FirstWindowOf(file.Content),
                          !.LastWindow = LastWindowOf(file.Content)]
        ELSE file]

\* optimizeWindow or optimizeBruteForce has returned its ordering.
OrdererReturned == pc = "combine"

\* C21: no entry is mutated while it is being ordered: when optimizeWindow
\* or optimizeBruteForce has returned, every TarFile has the content,
\* digests, header and window slices it had before the call, and the
\* ordering returned holds references to the TarFile objects it was given,
\* each of them once.
C21_EntriesNotMutated ==
    OrdererReturned =>
        /\ heap = PreparedFiles
        /\ \A k \in 1..Len(ordered) : ordered[k] \in Range(regularFiles)
        /\ \A k, m \in 1..Len(ordered) : ordered[k] = ordered[m] => k = m

\* Window mode has returned a chain of three files whose second step had
\* a worker appending in place behind the content of the last file.
C21_Witness ==
    /\ OrdererReturned
    /\ mode = WindowMode
    /\ Len(ordered) = MaxFiles
    /\ aliased(heap, ordered[2], ordered[3])

\* C22: writing any list of entries with writeTarGZ and reading the file
\* back with readTarGZ yields as many entries in the same order, each with
\* the header and data checksums checksumFiles took before writing:
\* validateChecksums accepts the list read back.
C22_RoundTrip ==
    roundTrip.pc = "done" =>
        /\ Len(roundTrip.out) = Len(roundTrip.files)
        /\ roundTrip.ok

\* C23: in the root package reorderWindow and reorderBrute return the same
\* arrangement for every input list: as many entries, and the same entry at
\* every position.  Whichever of the two the run called, what it returned
\* is what each of them returns for the files loaded.
C23_ReordersAgree ==
    cli.pc \in {"compress", "print", "checksums", "exit"} =>
        /\ cli.ordered = reorderBrute(cli.files)
        /\ cli.ordered = reorderWindow(cli.files)
        /\ Len(cli.ordered) = Len(cli.files)

\* A run without --brute has reordered three files into another order.
C23_Witness ==
    /\ cli.pc = "compress"
    /\ ~cli.useBrute
    /\ Len(cli.files) = MaxFiles
    /\ cli.ordered # cli.files

\* C30: the checksum validation of main passes for every ordering that is a
\* permutation of the input entries, orderings that differ from the input
\* order included.
C30_PermutationPasses ==
    (cli.pc = "exit" /\ SameMultiset(cli.ordered, cli.files)) => cli.status = 0

\* No arrangement was evaluated twice so far.
NoneRepeated ==
    \A j, k \in 1..Len(permuting.visited) : permuting.visited[j] = permuting.visited[k] => j = k

\* C24: a generator run on n entries evaluates every permutation of them
\* exactly once: n! evaluations, each an arrangement of the n entries, no
\* two of them the same.  This holds for the recursive swap generators and
\* for the lexicographic generator started from the sorted index array.
C24_EveryPermutationOnce ==
    /\ permuting.pc \in {"loop", "done"} => NoneRepeated
    /\ permuting.pc = "done" =>
           /\ Len(permuting.visited) = Factorial(Len(permuting.input))
           /\ \A k \in 1..Len(permuting.visited) :
                  /\ Len(permuting.visited[k]) = Len(permuting.input)
                  /\ Range(permuting.visited[k]) = Range(permuting.input)

\* The lexicographic generator has finished on an array of MaxPermute
\* indices that it was not given in sorted order.
C24_Witness ==
    /\ permuting.pc = "done"
    /\ permuting.generator = "nextPermutation"
    /\ Len(permuting.input) = MaxPermute
    /\ permuting.input # sortInts(permuting.input)
    /\ Len(permuting.visited) = Factorial(MaxPermute)

\* The regular entries of the input in input order: the slice OptimizeTarGz
\* hands to the orderer (squeezetgz.go:78-88).
InputSlice == SelectSeq(files, LAMBDA f : heap[f].Header.Typeflag = TypeReg)

\* C25: neither orderer changes the caller's input slice: while
\* optimizeWindow builds its chain and after it or optimizeBruteForce has
\* returned, the slice holds the same entries in the same order as before
\* the call.
C25_InputSliceKept ==
    pc \in {"chain", "combine"} => regularFiles = InputSlice

\* The exhaustive search has returned another order than the input's for
\* MaxFiles entries, so swaps were made and undone.
C25_Witness ==
    /\ mode = BruteForceMode
    /\ pc = "combine"
    /\ Len(regularFiles) = MaxFiles
    /\ ordered # regularFiles
    /\ regularFiles = InputSlice

\* A call of findBestNextFile is in progress.
CallRunning == call.pc = "collect"

\* A worker about to send finds a free slot in the channel.
SendNeverBlocks ==
    CallRunning =>
        \A i \in 1..Len(call.candidates) :
            call.worker[i] = "send" => Len(call.results) < Len(call.candidates)

\* The channel is closed only when every worker has finished.
ClosedAfterWorkers ==
    (CallRunning /\ call.closed) =>
        \A i \in 1..Len(call.candidates) : call.worker[i] = "done"

\* Nothing is sent on the closed channel.
NoSendOnClosed ==
    (CallRunning /\ call.closed) => Len(call'.results) <= Len(call.results)

\* The steps the goroutines of the call have left at most: a worker has
\* its append, its compression and its send before it, a sent result is
\* still to be received, the channel is still to be closed, and the caller
\* is still to return.
StepsLeft(c) ==
    LET n == Len(c.candidates)
        at(w) == Cardinality({i \in 1..n : c.worker[i] = w})
    IN  4 * at("append") + 3 * at("compress") + 2 * at("send")
            + Len(c.results)
            + (IF c.closed THEN 0 ELSE 1)
            + (IF c.pc = "collect" THEN 1 ELSE 0)

\* Every step taken while the call runs brings it closer to its return.
CallAdvances == CallRunning => StepsLeft(call') < StepsLeft(call)

\* Every worker of the call has finished.
WorkersDone ==
    \A i \in 1..Len(call.candidates) : call.worker[i] = "done"

\* C26: every call of findBestNextFile with a non-empty candidate list
\* terminates without deadlock: no worker blocks on sending its result, so
\* each worker runs through in three steps; the channel is closed only
\* after every worker has finished; nothing is sent on the closed channel;
\* and once the workers have finished the channel is closed, the collecting
\* loop ends and the call returns.
C26_CallTerminates ==
    /\ [](SendNeverBlocks /\ ClosedAfterWorkers)
    /\ [][NoSendOnClosed /\ CallAdvances]_vars
    /\ (CallRunning /\ call.candidates # <<>> /\ WorkersDone)
           ~> (call.pc = "returned")

\* A call with two candidates has returned after both results were
\* received.
C26_Witness ==
    /\ call.pc = "returned"
    /\ Len(call.candidates) >= 2
    /\ call.closed
    /\ call.resultsFound
    /\ \A i \in 1..Len(call.candidates) : call.worker[i] = "done"

\* The chain loop of optimizeWindow is about to call findBestNextFile.
ChainStepDue == pc = "chain" /\ remaining # <<>>

\* optimizeWindow is about to call findBestStartFile on a non-empty list.
StartDue == pc = "optimize" /\ mode = WindowMode /\ regularFiles # <<>>

\* The indices the two selections return are positions of their lists.
ReturnedIndexValid ==
    /\ StartDue =>
           findBestStartFile(heap, regularFiles) \in 1..Len(regularFiles)
    /\ ChainStepDue =>
           findBestNextFile(heap, ordered[Len(ordered)], remaining)
               \subseteq 1..Len(remaining)

\* A step of optimizeWindow moves exactly one entry from remaining to the
\* chain.
OneEntryPerStep ==
    /\ (StartDue /\ pc' # pc) =>
           /\ Len(ordered') = 1
           /\ Len(remaining') = Len(regularFiles) - 1
    /\ (ChainStepDue /\ remaining' # remaining) =>
           /\ Len(remaining') = Len(remaining) - 1
           /\ Len(ordered') = Len(ordered) + 1

\* C27: the index findBestStartFile and findBestNextFile return is a valid
\* position of the non-empty list passed in, also when no entry qualifies
\* for the start or scoring fails (fallback to the first position), so
\* optimizeWindow never indexes remaining out of range and removes exactly
\* one entry per step.
C27_ReturnedIndexValid ==
    [](ReturnedIndexValid) /\ [][OneEntryPerStep]_vars

\* A chain over MaxFiles entries is complete in a run where a scoring call
\* failed and no entry was long enough to qualify for the start.
C27_Witness ==
    /\ mode = WindowMode
    /\ pc = "combine"
    /\ fault = "scoring"
    /\ Len(regularFiles) = MaxFiles
    /\ Len(ordered) = MaxFiles
    /\ remaining = <<>>
    /\ \A i \in 1..MaxFiles :
           ByteLen(heap[regularFiles[i]].Content) < halfWindowSize * 2
    /\ ordered[1] = regularFiles[1]

\* The kind of entry k of an ordering of pointers.
KindOf(fs, k) == heap[fs[k]].Header.Typeflag

\* The entries of fs that are not regular files, in the order of fs.
NonRegular(fs) == SelectSeq(fs, LAMBDA f : heap[f].Header.Typeflag # TypeReg)

\* C28: OptimizeTarGz reorders only regular entries: in the ordering it
\* writes every non-regular entry comes after all regular entries, the
\* non-regular entries keep their relative input order, and every entry of
\* the input, of every kind, is present.
C28_SpecialsLastInInputOrder ==
    /\ OrderingProduced =>
          /\ \A j, k \in 1..Len(orderedFiles) :
                 (j < k /\ KindOf(orderedFiles, j) # TypeReg) =>
                     KindOf(orderedFiles, k) # TypeReg
          /\ NonRegular(orderedFiles) = NonRegular(files)
          /\ SameMultiset(orderedFiles, files)
          /\ \A k \in 1..Len(orderedFiles) :
                 optimizedTarGz[1].entries[k].Header = heap[orderedFiles[k]].Header
    /\ outputFile # <<>> => outputFile[1].entries = optimizedTarGz[1].entries

\* An archive was written whose input began with a non-regular entry and
\* held a second one of another kind, and a regular file.
C28_Witness ==
    /\ outputFile # <<>>
    /\ files # <<>>
    /\ KindOf(files, 1) # TypeReg
    /\ Len(specialFiles) >= 2
    /\ specialFiles[1] # specialFiles[2]
    /\ KindOf(specialFiles, 1) # KindOf(specialFiles, 2)
    /\ regularFiles # <<>>

\* C29: in package squeeze orderWindow returns, for every n >= 0, exactly n
\* distinct indices of 0..n-1 (none for n = 0), so writeArchive and validate
\* never index files outside 0..n-1.
C29_OrderIsIndexPermutation ==
    /\ squeeze.pc \in {"write", "validate", "done"} =>
           LET n == Len(squeeze.files) IN
           /\ Len(squeeze.order) = n
           /\ \A k \in 1..Len(squeeze.order) : squeeze.order[k] \in 0..(n - 1)
           /\ \A j, k \in 1..Len(squeeze.order) :
                  squeeze.order[j] = squeeze.order[k] => j = k
    /\ squeeze.pc = "done" => squeeze.err # "panic"

====
